---- MODULE Spec2Model ----
(***************************************************************************)
(* Storage engine of martingoe/dbms: the buffer pool                       *)
(* (src/disk_management/buffer_pool.rs), its LRU replacer                  *)
(* (lru_replacer.rs) and the disk manager (disk_manager.rs); the           *)
(* extendible hash index (src/extendible_hashing), the B+ tree index and   *)
(* its pages (src/b_plus_tree) and the table page (src/table).             *)
(*                                                                         *)
(* A page's 4096 bytes are abstracted to the sequence of the values it     *)
(* holds up to its last non-zero one: ZeroPage, the all-zero page, is the  *)
(* empty sequence, and the pool's callers hand it the one-value pages      *)
(* <<1>>..<<MaxByte>>.  The backing file is the sequence of its pages,     *)
(* file[page_id + 1] being the page at byte offset page_id * PAGE_SIZE.    *)
(***************************************************************************)
EXTENDS Integers, Sequences, FiniteSets, TLC

\* ------------------------------------------------------------------------
\* Program constants and bounds
\* ------------------------------------------------------------------------

\* buffer_pool.rs:8
PAGE_SIZE == 4096

\* Largest pool the model constructs.  buffer_pool.rs:9 fixes POOL_SIZE at
\* 100 frames; the model runs the same code over pools of 1..MaxPoolSize
\* frames, the size being chosen when the pool is constructed.
MaxPoolSize == 2

\* Number of pages the backing file may grow to (page ids 0..MaxPages-1).
MaxPages == 3

\* Distinct non-zero page contents handed to update_page.
MaxByte == 1

\* Cap on a page's pin count (ref_count is an unbounded usize).
MaxRef == 2

\* Largest clock reading (milliseconds) stamped by the LRU replacer.
MaxTime == 1

ZeroPage == <<>>
\* The contents callers hand to update_page.
Payloads == {<<b>> : b \in 1..MaxByte}
Bytes == {ZeroPage} \cup Payloads
PageIds == 0..(MaxPages - 1)

\* Option<T>
None == <<>>
Some(x) == <<x>>

VARIABLES
    data,           \* BufferPool.data: frame index -> Option<RawPage>
    page_table,     \* BufferPool.page_table: page id -> PageTableEntry
    current_pages,  \* LRUReplacer.current_pages: page id -> timestamp
    file,           \* DiskManager.file: the pages of the backing file
    now,            \* last reading of chrono::Utc::now().timestamp_millis()
    panicked,       \* "" or the message of the expect() that aborted the program
    latest          \* history: page id + 1 -> bytes of the last update_page

\* The hash index built on the pool (src/extendible_hashing).
VARIABLES
    directory_page_id,  \* ExtendibleHashing.directory_page_id, None before setup
    inserted,           \* history: the (key, value) arguments of the inserts
    removals,           \* history: the number of remove calls
    ops,                \* history: the number of index operations so far
    dir_view,           \* a HashDirectoryPage under the split functions
    split_log           \* history: the last split applied to dir_view

\* The components checked on their own: the LRU replacer, the B+ tree pages,
\* the B+ tree index (src/b_plus_tree) and the table page (src/table).
VARIABLES
    added,            \* history: the replacer's pages, in the order of add_page
    leaf_page,        \* a BPlusTreeLeafPage under insert and remove
    leaf_pairs,       \* history: the (key, rid) pairs given to leaf_page
    internal_page,    \* a BPlusTreeInternalPage under get_child_node
    routed,           \* history: the last get_child_node call and its result
    root_pid,         \* BPlusTreeIndex.root_pid, None when no tree is open
    key_size,         \* std::mem::size_of::<KeyType>() of the open tree
    threads,          \* per thread: where it is in BPlusTreeIndex::insert
    tree_inserted,    \* history: the (key, rid) arguments of returned inserts
    table_page,       \* a TablePage under insert and remove
    table_log,        \* history: the bytes inserted into table_page, by slot
    overflow_checks   \* whether the build traps integer overflow

\* The specifications that follow a call step by step: the two mutexes with
\* the threads that take them, and the recursion of the hash insert.
VARIABLES
    buffer_pool_lock,   \* the Mutex<BufferPool>: its holder and its poison flag
    file_manager_lock,  \* BufferPool.file_manager, the Mutex<DiskManager>
    pc,                 \* per thread: where it is between the two mutexes
    call_stack          \* the insert_with_lock calls that have not returned

hvars == <<directory_page_id, inserted, removals, ops, dir_view, split_log>>

uvars == <<added, leaf_page, leaf_pairs, internal_page, routed, root_pid,
           key_size, threads, tree_inserted, table_page, table_log,
           overflow_checks>>

svars == <<buffer_pool_lock, file_manager_lock, pc, call_stack>>

vars == <<data, page_table, current_pages, file, now, panicked, latest,
          directory_page_id, inserted, removals, ops, dir_view, split_log,
          added, leaf_page, leaf_pairs, internal_page, routed, root_pid,
          key_size, threads, tree_inserted, table_page, table_log,
          overflow_checks, buffer_pool_lock, file_manager_lock, pc,
          call_stack>>

\* No hash index has been created.
HashIdle ==
    /\ directory_page_id = <<>>
    /\ inserted = {}
    /\ removals = 0
    /\ ops = 0
    /\ dir_view = <<>>
    /\ split_log = <<>>

\* No thread is running and no insert is under way.
StepIdle ==
    /\ buffer_pool_lock = <<>>
    /\ file_manager_lock = <<>>
    /\ pc = <<>>
    /\ call_stack = <<>>

\* None of the components checked on their own is in use.
UnitIdle ==
    /\ added = <<>>
    /\ leaf_page = <<>>
    /\ leaf_pairs = {}
    /\ internal_page = <<>>
    /\ routed = <<>>
    /\ root_pid = <<>>
    /\ key_size = 0
    /\ threads = <<>>
    /\ tree_inserted = {}
    /\ table_page = <<>>
    /\ table_log = <<>>
    /\ overflow_checks = FALSE

\* ------------------------------------------------------------------------
\* Small helpers on finite maps
\* ------------------------------------------------------------------------

\* F applied to the value of x, which is computed once: one statement after
\* another.
Then(x, F(_)) == CHOOSE r \in {F(v) : v \in {x}} : TRUE

EmptyMap == [x \in {} |-> 0]

MapPut(m, k, v) == [x \in (DOMAIN m) \cup {k} |-> IF x = k THEN v ELSE m[x]]

MapDel(m, k) == [x \in (DOMAIN m) \ {k} |-> m[x]]

SetMin(S) == CHOOSE x \in S : \A y \in S : x <= y

\* ------------------------------------------------------------------------
\* DiskManager
\* ------------------------------------------------------------------------

\* The byte length of the file.
get_file_length(f) == Len(f) * PAGE_SIZE

\* seek + write + flush: overwrites the page, or extends the file (the gap,
\* if any, reads back as zeros).
write_page(f, page_id, bytes) ==
    [i \in 1..(IF page_id + 1 > Len(f) THEN page_id + 1 ELSE Len(f)) |->
        IF i = page_id + 1 THEN bytes
        ELSE IF i <= Len(f) THEN f[i] ELSE ZeroPage]

\* seek + read_exact: None stands for the expect() failing past the end.
read_page(f, page_id) ==
    IF page_id < Len(f) THEN Some(f[page_id + 1]) ELSE None

\* ------------------------------------------------------------------------
\* LRUReplacer
\* ------------------------------------------------------------------------

\* PriorityQueue::push: inserts, or replaces the priority of a present item.
add_page(lru, page_index, time_stamp) == MapPut(lru, page_index, time_stamp)

\* drop_page leaving the page in the queue.
drop_page_kept(lru, page_index) == lru

drop_page(lru, page_index) == MapDel(lru, page_index)

\* What drop_page returns: PriorityQueue::remove's item, if there was one.
drop_page_ret(lru, page_index) ==
    IF page_index \in DOMAIN lru THEN Some(page_index) ELSE None

drop_all_pages(lru) == EmptyMap

\* The items PriorityQueue::pop may return: priority Reverse(timestamp), so
\* the smallest timestamp; the queue decides among equal timestamps.
LeastRecentlyUsed(lru) ==
    {p \in DOMAIN lru : \A q \in DOMAIN lru : lru[p] <= lru[q]}

\* The possible results of pop(): Some(page) or None on an empty queue.
PopChoices(lru) ==
    IF DOMAIN lru = {} THEN {None} ELSE {Some(p) : p \in LeastRecentlyUsed(lru)}

pop_least_recently_used(lru, pick) ==
    IF pick = None THEN lru ELSE MapDel(lru, pick[1])

\* ------------------------------------------------------------------------
\* BufferPool
\* ------------------------------------------------------------------------

PageTableEntry(frame_id) ==
    [frame_index |-> frame_id, dirty |-> FALSE, ref_count |-> 1]

\* The pool, its disk and the outcome of a call as one record:
\* ok/ret are the call's result, panicked is set when it aborted.
St == [data |-> data, page_table |-> page_table, current_pages |-> current_pages,
       file |-> file, now |-> now, panicked |-> "", ok |-> TRUE, ret |-> None]

\* The number of frames: data is vec![None; POOL_SIZE] and never resized.
POOL_SIZE(s) == Cardinality(DOMAIN s.data)

load_page_from_disk(s, page_id, frame_index) ==
    LET new_data == read_page(s.file, page_id) IN
    IF new_data = None
    THEN [s EXCEPT !.panicked = "Could not read page contents",
                   !.ok = FALSE, !.ret = None]
    ELSE [s EXCEPT !.page_table = MapPut(@, page_id, PageTableEntry(frame_index)),
                   !.data[frame_index] = new_data,
                   !.ok = TRUE,
                   !.ret = Some(frame_index)]

\* load_page without the page_table lookup: every call takes a free frame.
load_page_unshared(s, page_id, pick) ==
    LET free == {i \in DOMAIN s.data : s.data[i] = None} IN
    IF free = {}
    THEN [s EXCEPT !.ok = FALSE, !.ret = None]
    ELSE load_page_from_disk(s, page_id, SetMin(free))

\* pick is what lru_replacer.pop_least_recently_used() returns if called.
load_page(s, page_id, pick) ==
    IF page_id \in DOMAIN s.page_table
    THEN LET rc == s.page_table[page_id].ref_count + 1 IN
         [s EXCEPT !.page_table[page_id].ref_count = rc,
                   !.current_pages = IF rc = 1 THEN drop_page(@, page_id) ELSE @,
                   !.ok = TRUE,
                   !.ret = Some(s.page_table[page_id].frame_index)]
    ELSE IF Cardinality(DOMAIN s.page_table) = POOL_SIZE(s)
    THEN IF pick = None
         THEN [s EXCEPT !.ok = FALSE, !.ret = None]
         ELSE LET index == pick[1]
                  popped == [s EXCEPT !.current_pages =
                                 pop_least_recently_used(@, pick)]
              IN IF index \notin DOMAIN s.page_table
                 THEN [popped EXCEPT !.panicked = "Could not find the page table entry",
                                     !.ok = FALSE]
                 ELSE LET entry == s.page_table[index]
                          frame_index == entry.frame_index
                          written ==
                              IF entry.dirty
                              THEN [popped EXCEPT !.file =
                                       write_page(@, index, s.data[frame_index][1])]
                              ELSE popped
                      IN IF entry.dirty /\ s.data[frame_index] = None
                         THEN [popped EXCEPT !.panicked =
                                   "Expected a filled page that isn't filled",
                                             !.ok = FALSE]
                         ELSE load_page_from_disk(written, page_id, frame_index)
    ELSE LET free == {i \in DOMAIN s.data : s.data[i] = None} IN
         IF free = {}
         THEN [s EXCEPT !.panicked = "could not find a none-value",
                        !.ok = FALSE, !.ret = None]
         ELSE load_page_from_disk(s, page_id, SetMin(free))

\* allocate_new_page skipping a page id.
allocate_new_page_skipping(s) ==
    LET page_id == get_file_length(s.file) \div PAGE_SIZE + 1 IN
    [s EXCEPT !.file = write_page(@, page_id, ZeroPage),
              !.ok = TRUE,
              !.ret = Some(page_id)]

allocate_new_page(s) ==
    LET page_id == get_file_length(s.file) \div PAGE_SIZE IN
    [s EXCEPT !.file = write_page(@, page_id, ZeroPage),
              !.ok = TRUE,
              !.ret = Some(page_id)]

\* ret is Some(<<page_id, frame_id>>) or None.
load_new_page(s, pick) ==
    LET a == allocate_new_page(s)
        page_id == a.ret[1]
        l == load_page(a, page_id, pick)
    IN IF l.ret = None THEN l ELSE [l EXCEPT !.ret = Some(<<page_id, l.ret[1]>>)]

\* unload_page_id handing the page to the replacer on every decrement.
unload_page_id_always_replaceable(s, page_id, time_stamp) ==
    IF page_id \notin DOMAIN s.page_table
    THEN [s EXCEPT !.ok = FALSE, !.ret = None]
    ELSE IF s.page_table[page_id].ref_count = 0
    THEN [s EXCEPT !.ok = FALSE, !.ret = None]
    ELSE [s EXCEPT !.page_table[page_id].ref_count = @ - 1,
                   !.current_pages = add_page(@, page_id, time_stamp),
                   !.now = time_stamp,
                   !.ok = TRUE, !.ret = None]

\* time_stamp is the clock reading add_page takes if it is called.
unload_page_id(s, page_id, time_stamp) ==
    IF page_id \notin DOMAIN s.page_table
    THEN [s EXCEPT !.ok = FALSE, !.ret = None]
    ELSE IF s.page_table[page_id].ref_count = 0
    THEN [s EXCEPT !.ok = FALSE, !.ret = None]
    ELSE LET rc == s.page_table[page_id].ref_count - 1 IN
         IF rc = 0
         THEN [s EXCEPT !.page_table[page_id].ref_count = rc,
                        !.current_pages = add_page(@, page_id, time_stamp),
                        !.now = time_stamp,
                        !.ok = TRUE, !.ret = None]
         ELSE [s EXCEPT !.page_table[page_id].ref_count = rc,
                        !.ok = TRUE, !.ret = None]

\* The writes of the drain loop over the entries in todo, in some order.
RECURSIVE WriteDirty(_, _, _, _)
WriteDirty(f, pt, d, todo) ==
    IF todo = {} THEN f
    ELSE LET page_id == CHOOSE p \in todo : TRUE
             e == pt[page_id]
             g == IF e.dirty THEN write_page(f, page_id, d[e.frame_index][1]) ELSE f
         IN WriteDirty(g, pt, d, todo \ {page_id})

unload_all_pages_and_write_to_file(s) ==
    [s EXCEPT !.file = WriteDirty(@, s.page_table, s.data, DOMAIN s.page_table),
              !.page_table = EmptyMap,
              !.data = [i \in DOMAIN s.data |-> None],
              !.current_pages = drop_all_pages(@),
              !.ok = TRUE, !.ret = None]

update_page(s, page_id, new_data, pick) ==
    LET l == load_page(s, page_id, pick) IN
    IF l.panicked # "" THEN l
    ELSE IF l.ret # None
    THEN [l EXCEPT !.page_table[page_id].dirty = TRUE,
                   !.data[l.ret[1]] = Some(new_data),
                   !.ok = TRUE, !.ret = None]
    ELSE [l EXCEPT !.ok = FALSE, !.ret = None]

\* ------------------------------------------------------------------------
\* The state machine: one action per public operation of the pool
\* ------------------------------------------------------------------------

\* BufferPool::new over a freshly created (empty) file.
Init ==
    /\ \E n \in 1..MaxPoolSize : data = [i \in 0..(n - 1) |-> None]
    /\ page_table = EmptyMap
    /\ current_pages = EmptyMap
    /\ file = <<>>
    /\ now = 0
    /\ panicked = ""
    /\ latest = <<>>
    /\ HashIdle
    /\ StepIdle
    /\ UnitIdle

\* The pool after a call that returned r.
PoolApply(r) ==
    /\ data' = r.data
    /\ page_table' = r.page_table
    /\ current_pages' = r.current_pages
    /\ file' = r.file
    /\ now' = r.now
    /\ panicked' = r.panicked

\* A call made on the pool directly: the index is not involved.
Apply(r) == PoolApply(r) /\ UNCHANGED <<hvars, uvars, svars>>

\* A pin that would pass the model's cap on ref_count is not taken.
CanPin(page_id) ==
    page_id \in DOMAIN page_table => page_table[page_id].ref_count < MaxRef

\* The clock readings add_page may take: time has stood still or advanced.
ClockReadings == {t \in {now, now + 1} : t <= MaxTime}

LoadPage ==
    /\ panicked = ""
    /\ \E page_id \in PageIds, pick \in PopChoices(current_pages) :
          /\ CanPin(page_id)
          /\ Apply(load_page(St, page_id, pick))
    /\ UNCHANGED latest

UnloadPage ==
    /\ panicked = ""
    /\ \E page_id \in PageIds, time_stamp \in ClockReadings :
          Apply(unload_page_id(St, page_id, time_stamp))
    /\ UNCHANGED latest

UpdatePage ==
    /\ panicked = ""
    /\ \E page_id \in PageIds, new_data \in Payloads, pick \in PopChoices(current_pages) :
          /\ CanPin(page_id)
          /\ LET r == update_page(St, page_id, new_data, pick) IN
             /\ Apply(r)
             /\ latest' = IF r.ok /\ r.panicked = ""
                          THEN [latest EXCEPT ![page_id + 1] = new_data]
                          ELSE latest

AllocateNewPage ==
    /\ panicked = ""
    /\ Len(file) < MaxPages
    /\ Apply(allocate_new_page(St))
    /\ latest' = Append(latest, ZeroPage)

LoadNewPage ==
    /\ panicked = ""
    /\ Len(file) < MaxPages
    /\ \E pick \in PopChoices(current_pages) : Apply(load_new_page(St, pick))
    /\ latest' = Append(latest, ZeroPage)

FlushAll ==
    /\ panicked = ""
    /\ Apply(unload_all_pages_and_write_to_file(St))
    /\ UNCHANGED latest

Next ==
    \/ LoadPage
    \/ UnloadPage
    \/ UpdatePage
    \/ AllocateNewPage
    \/ LoadNewPage
    \/ FlushAll

Spec == Init /\ [][Next]_vars

\* ------------------------------------------------------------------------
\* Claims about the buffer pool
\* ------------------------------------------------------------------------

\* The states a caller can observe: no operation has aborted the program.
Running == panicked = ""

\* The page ids that exist in the backing file.
OnDisk == {p \in PageIds : p < Len(file)}

\* C1: every successful load_page(p) returns a frame index f such that
\* page_table[p] exists with frame_index f and ref_count >= 1, p is not in
\* the LRU replacer, and frames[f] holds p's current bytes (those of the most
\* recent update_page(p, .), or p's disk contents if there was none).
C1_LoadReturnsCurrentBytes ==
    Running =>
        \A page_id \in PageIds, pick \in PopChoices(current_pages) :
            LET r == load_page(St, page_id, pick) IN
            (r.panicked = "" /\ r.ret # None) =>
                /\ page_id \in DOMAIN r.page_table
                /\ r.page_table[page_id].frame_index = r.ret[1]
                /\ r.page_table[page_id].ref_count >= 1
                /\ page_id \notin DOMAIN r.current_pages
                /\ r.data[r.ret[1]] = Some(latest[page_id + 1])

\* C2: for every page id in page_table, the page is in the LRU replacer if
\* and only if its ref_count is 0.
C2_LruIffUnpinned ==
    Running =>
        \A pid \in DOMAIN page_table :
            (pid \in DOMAIN current_pages) <=> (page_table[pid].ref_count = 0)

\* C3: page_table has at most POOL_SIZE entries, at most POOL_SIZE frames are
\* Some, and every entry's frame_index refers to a frame that is Some.
C3_TableWithinPool ==
    Running =>
        /\ Cardinality(DOMAIN page_table) <= POOL_SIZE(St)
        /\ Cardinality({i \in DOMAIN data : data[i] # None}) <= POOL_SIZE(St)
        /\ \A pid \in DOMAIN page_table :
              /\ page_table[pid].frame_index \in DOMAIN data
              /\ data[page_table[pid].frame_index] # None

\* C4: the binding between resident page ids and frame indices is one-to-one:
\* no two page_table entries share the same frame_index.
C4_OneToOneFrames ==
    Running =>
        \A p \in DOMAIN page_table, q \in DOMAIN page_table :
            p # q => page_table[p].frame_index # page_table[q].frame_index

\* C5: while a page p is pinned (ref_count >= 1) no load_page, update_page or
\* unload_page of another page q # p (nor the eviction it causes) rebinds or
\* overwrites p's frame.
C5_PinnedFrameStable ==
    Running =>
        \A p \in DOMAIN page_table :
            page_table[p].ref_count >= 1 =>
                \A q \in PageIds \ {p}, pick \in PopChoices(current_pages),
                   new_data \in Payloads, time_stamp \in ClockReadings :
                    \A r \in {load_page(St, q, pick),
                              update_page(St, q, new_data, pick),
                              unload_page_id(St, q, time_stamp)} :
                        r.panicked = "" =>
                            /\ p \in DOMAIN r.page_table
                            /\ r.page_table[p].frame_index = page_table[p].frame_index
                            /\ r.data[page_table[p].frame_index]
                                  = data[page_table[p].frame_index]

\* C6: on a load_page miss with the pool full and at least one unpinned page,
\* exactly the page popped from the LRU replacer is evicted: the victim is
\* removed from page_table, its frame is reused for the requested page with a
\* fresh entry (dirty = false, ref_count = 1), and no other entry changes.
C6_EvictsExactlyVictim ==
    Running =>
        \A page_id \in OnDisk \ DOMAIN page_table, pick \in PopChoices(current_pages) :
            (Cardinality(DOMAIN page_table) = POOL_SIZE(St) /\ pick # None) =>
                LET victim == pick[1]
                    r == load_page(St, page_id, pick)
                IN /\ r.panicked = ""
                   /\ r.ret = Some(page_table[victim].frame_index)
                   /\ DOMAIN r.page_table = (DOMAIN page_table \ {victim}) \cup {page_id}
                   /\ r.page_table[page_id] = [frame_index |-> page_table[victim].frame_index,
                                               dirty |-> FALSE, ref_count |-> 1]
                   /\ \A q \in DOMAIN page_table \ {victim} :
                         q \in DOMAIN r.page_table /\ r.page_table[q] = page_table[q]

\* C7: load_page(p) for a non-resident page p when every frame is occupied
\* and no page is evictable (every resident page pinned, LRU empty) returns a
\* failure without aborting and leaves page_table, frames, LRU and disk
\* unchanged.
C7_ExhaustionIsFailure ==
    Running =>
        \A page_id \in OnDisk \ DOMAIN page_table, pick \in PopChoices(current_pages) :
            (/\ \A i \in DOMAIN data : data[i] # None
             /\ \A q \in DOMAIN page_table : page_table[q].ref_count >= 1
             /\ DOMAIN current_pages = {}) =>
                LET r == load_page(St, page_id, pick) IN
                /\ r.panicked = ""
                /\ r.ret = None
                /\ r.page_table = page_table
                /\ r.data = data
                /\ r.current_pages = current_pages
                /\ r.file = file

\* C8: update_page(p, bytes) replaces the bytes of p's frame with bytes and
\* sets dirty; it pins p only when p was not resident before the call, so on
\* an already resident page it leaves ref_count unchanged.
C8_UpdatePinsOnlyOnMiss ==
    Running =>
        \A page_id \in PageIds, new_data \in Payloads, pick \in PopChoices(current_pages) :
            LET r == update_page(St, page_id, new_data, pick) IN
            (r.panicked = "" /\ r.ok) =>
                /\ page_id \in DOMAIN r.page_table
                /\ r.data[r.page_table[page_id].frame_index] = Some(new_data)
                /\ r.page_table[page_id].dirty
                /\ r.page_table[page_id].ref_count =
                      IF page_id \in DOMAIN page_table
                      THEN page_table[page_id].ref_count
                      ELSE 1

\* The pinned session load_page(p); update_page(p, A); unload_page(p), run
\* from the current state; pick and time_stamp are the replacer's answers.
Session(p, A, pick, time_stamp) ==
    LET s1 == load_page(St, p, pick)
        s2 == update_page(s1, p, A, None)
    IN unload_page_id(s2, p, time_stamp)

\* C9: a session load_page(p); update_page(p, A); unload_page(p) on a page
\* that started non-resident leaves p unpinned and evictable; with the pool
\* full and p the replacer's victim, a following load_page(q) of another page
\* succeeds and, p being dirty, a fresh disk read of p returns A.
C9_SessionThenEviction ==
    Running =>
        \A p \in OnDisk \ DOMAIN page_table, A \in Payloads,
           pick \in PopChoices(current_pages), time_stamp \in ClockReadings :
            LET s1 == load_page(St, p, pick)
                s3 == Session(p, A, pick, time_stamp)
            IN (s1.panicked = "" /\ s1.ret # None) =>
                  /\ s3.ok
                  /\ s3.page_table[p].ref_count = 0
                  /\ p \in DOMAIN s3.current_pages
                  /\ \A q \in OnDisk \ DOMAIN s3.page_table :
                        (/\ Cardinality(DOMAIN s3.page_table) = POOL_SIZE(s3)
                         /\ PopChoices(s3.current_pages) = {Some(p)}) =>
                            LET s4 == load_page(s3, q, Some(p)) IN
                            /\ s4.panicked = ""
                            /\ s4.ret # None
                            /\ read_page(s4.file, p) = Some(A)

\* C10: dirty pages are never silently dropped: for every page p that
\* received bytes through update_page, the most recent such bytes are held in
\* p's frame or on disk at p's offset.
C10_DirtyNeverDropped ==
    Running =>
        \A p \in OnDisk :
            latest[p + 1] # ZeroPage =>
                \/ /\ p \in DOMAIN page_table
                   /\ data[page_table[p].frame_index] = Some(latest[p + 1])
                \/ file[p + 1] = latest[p + 1]

\* C11: unload_all_pages_and_write_to_file leaves on disk, at the offset of
\* every dirty page of the page table, that page's own bytes (the bytes its
\* last update_page gave it), writes no clean page, and leaves the pool
\* empty: no page table entry, every frame None, no replacer entry.
C11_FlushWritesDirtyOwnBytes ==
    Running =>
        LET r == unload_all_pages_and_write_to_file(St) IN
        /\ Len(r.file) = Len(file)
        /\ \A p \in OnDisk :
               IF p \in DOMAIN page_table /\ page_table[p].dirty
               THEN r.file[p + 1] = latest[p + 1]
               ELSE r.file[p + 1] = file[p + 1]
        /\ DOMAIN r.page_table = {}
        /\ \A i \in DOMAIN r.data : r.data[i] = None
        /\ DOMAIN r.current_pages = {}

\* C12: unload_page_id fails and changes neither the page table, the frames
\* nor the replacer when the page is not resident or its ref_count is 0;
\* otherwise it lowers that page's ref_count by exactly one, changes no other
\* entry, no frame and no dirty flag, and the page enters the replacer
\* exactly when the new ref_count is 0.
C12_UnloadDecrementsOrFails ==
    Running =>
        \A p \in PageIds : \A time_stamp \in ClockReadings :
            LET r == unload_page_id(St, p, time_stamp) IN
            IF p \notin DOMAIN page_table \/ page_table[p].ref_count = 0
            THEN /\ ~r.ok
                 /\ r.page_table = page_table
                 /\ r.data = data
                 /\ r.current_pages = current_pages
            ELSE /\ r.ok
                 /\ r.page_table =
                        [page_table EXCEPT ![p].ref_count = @ - 1]
                 /\ r.data = data
                 /\ r.file = file
                 /\ DOMAIN r.current_pages =
                        IF page_table[p].ref_count = 1
                        THEN DOMAIN current_pages \cup {p}
                        ELSE DOMAIN current_pages
                 /\ \A q \in DOMAIN current_pages :
                        r.current_pages[q] = current_pages[q]

\* C12's case: a page that an unload took from one pin to none sits in the
\* replacer while another page is still pinned twice.
C12_Witness ==
    /\ Running
    /\ \E p \in DOMAIN page_table :
           /\ page_table[p].ref_count = 0
           /\ p \in DOMAIN current_pages
    /\ \E q \in DOMAIN page_table : page_table[q].ref_count = 2

\* ------------------------------------------------------------------------
\* The extendible hash index (src/extendible_hashing)
\* ------------------------------------------------------------------------
(* The index of the source holds 512 = 2^9 directory slots and              *)
(* PAGE_SIZE / (2 + |K| + |V|) entries per bucket; the model keeps the      *)
(* code and scales both numbers.  A key stands for the value DefaultHasher  *)
(* gives it, so get_hash reads the key's bits and two inserts of one key    *)
(* are the keys that agree on every bit of the hash.                        *)

\* The largest global depth the directory arrays have room for (source: 9).
MaxGlobalDepth == 3
\* The entries of one bucket page (source: 409 for u32 keys and values).
number_of_entries == 2
MaxKey == 3
MaxValue == 1
\* The index operations of one behaviour.
MaxHashOps == 6
\* The frames of the pool the index runs on.
HashPoolSize == 12

DirectorySlots == 2 ^ MaxGlobalDepth
Slots == 0..(DirectorySlots - 1)
Entries == 0..(number_of_entries - 1)
Keys == 0..MaxKey
Values == 0..MaxValue

\* Bit n of x.
Bit(x, n) == (x \div (2 ^ n)) % 2

get_hash(key) == key

\* The byte at offset i of a page; all bytes past the kept ones are zero.
Byte(raw, i) == IF i < Len(raw) THEN raw[i + 1] ELSE 0

\* A page image cut after its last non-zero value, the rest being the zero
\* fill up to PAGE_SIZE.
RawPage(v) ==
    LET used == {i \in 1..Len(v) : v[i] # 0}
        n == IF used = {} THEN 0 ELSE CHOOSE i \in used : \A j \in used : j <= i
    IN SubSeq(v, 1, n)

\* --- HashDirectoryPage ---------------------------------------------------

HashDirectoryPage_from_raw_page(raw) ==
    [page_id |-> Byte(raw, 0),
     log_id |-> Byte(raw, 1),
     global_depth |-> Byte(raw, 2),
     local_depths |-> [i \in Slots |-> Byte(raw, 3 + i)],
     bucket_page_ids |-> [i \in Slots |-> Byte(raw, 3 + DirectorySlots + i)]]

\* new_empty naming bucket1_pid in both slots.
new_empty_one_bucket(own_pid, bucket1_pid, bucket2_pid, log_id) ==
    [page_id |-> own_pid,
     log_id |-> log_id,
     global_depth |-> 1,
     local_depths |-> [i \in Slots |-> IF i \in {0, 1} THEN 1 ELSE 0],
     bucket_page_ids |-> [i \in Slots |-> IF i \in {0, 1} THEN bucket1_pid ELSE 0]]

new_empty(own_pid, bucket1_pid, bucket2_pid, log_id) ==
    [page_id |-> own_pid,
     log_id |-> log_id,
     global_depth |-> 1,
     local_depths |-> [i \in Slots |-> IF i \in {0, 1} THEN 1 ELSE 0],
     bucket_page_ids |-> [i \in Slots |-> IF i = 0 THEN bucket1_pid
                                          ELSE IF i = 1 THEN bucket2_pid
                                          ELSE 0]]

HashDirectoryPage_to_raw_page(d) ==
    RawPage(<<d.page_id, d.log_id, d.global_depth>>
            \o [i \in 1..DirectorySlots |-> d.local_depths[i - 1]]
            \o [i \in 1..DirectorySlots |-> d.bucket_page_ids[i - 1]])

\* The setters answer Err for an index outside the arrays: ok is FALSE and
\* the page is unchanged.
set_local_depth(d, index, local_depth) ==
    IF index \in Slots
    THEN [ok |-> TRUE, page |-> [d EXCEPT !.local_depths[index] = local_depth]]
    ELSE [ok |-> FALSE, page |-> d]

\* increment_local_depth returning Ok without raising the depth.
increment_local_depth_same(d, index) ==
    IF index \in Slots THEN [ok |-> TRUE, page |-> d] ELSE [ok |-> FALSE, page |-> d]

increment_local_depth(d, index) ==
    IF index \in Slots
    THEN [ok |-> TRUE, page |-> [d EXCEPT !.local_depths[index] = @ + 1]]
    ELSE [ok |-> FALSE, page |-> d]

set_bucket_page_id(d, index, page_id) ==
    IF index \in Slots
    THEN [ok |-> TRUE, page |-> [d EXCEPT !.bucket_page_ids[index] = page_id]]
    ELSE [ok |-> FALSE, page |-> d]

increment_global_depth(d) == [d EXCEPT !.global_depth = @ + 1]

\* --- HashBucketPage ------------------------------------------------------

\* Default::default() of a key and value pair.
DefaultKeyValue == <<0, 0>>

HashBucketPage_from_raw_page(raw) ==
    [readable |-> [i \in Entries |-> Byte(raw, i) # 0],
     has_been_occupied |-> [i \in Entries |-> Byte(raw, i + number_of_entries) # 0],
     key_values |-> [i \in Entries |->
                        <<Byte(raw, 2 * i + number_of_entries * 2),
                          Byte(raw, 2 * i + number_of_entries * 2 + 1)>>]]

HashBucketPage_to_raw_page(b) ==
    RawPage([i \in 1..number_of_entries |-> IF b.readable[i - 1] THEN 1 ELSE 0]
            \o [i \in 1..number_of_entries |->
                    IF b.has_been_occupied[i - 1] THEN 1 ELSE 0]
            \o [i \in 1..(2 * number_of_entries) |->
                    b.key_values[(i - 1) \div 2][((i - 1) % 2) + 1]])

is_full(b) == \A i \in Entries : b.readable[i]

first_free_index(b) ==
    LET free == {i \in Entries : ~b.readable[i]} IN
    IF free = {} THEN None ELSE Some(SetMin(free))

\* HashBucketPage::insert: Err (ok FALSE) on a bucket without a free entry.
HashBucketPage_insert(b, key, value) ==
    LET index == first_free_index(b) IN
    IF index = None
    THEN [ok |-> FALSE, page |-> b]
    ELSE [ok |-> TRUE,
          page |-> [b EXCEPT !.readable[index[1]] = ~@,
                             !.has_been_occupied[index[1]] = TRUE,
                             !.key_values[index[1]] = <<key, value>>]]

\* remove_index returning the entry and leaving it in place.
remove_index_kept(b, index) == [ret |-> b.key_values[index], page |-> b]

\* remove_index toggles the readable flag whatever it was.
remove_index(b, index) ==
    [ret |-> b.key_values[index],
     page |-> [b EXCEPT !.readable[index] = ~@,
                        !.key_values[index] = DefaultKeyValue]]

\* HashBucketPage::remove returning the entry and leaving it readable.
HashBucketPage_remove_kept(b, key_to_remove) ==
    LET hits == {i \in Entries : b.key_values[i][1] = key_to_remove /\ b.readable[i]}
    IN IF hits = {}
       THEN [ret |-> None, page |-> b]
       ELSE [ret |-> Some(b.key_values[SetMin(hits)]), page |-> b]

\* HashBucketPage::remove: the first readable entry holding the key.
HashBucketPage_remove(b, key_to_remove) ==
    LET hits == {i \in Entries : b.key_values[i][1] = key_to_remove /\ b.readable[i]}
    IN IF hits = {}
       THEN [ret |-> None, page |-> b]
       ELSE LET index_to_remove == SetMin(hits) IN
            [ret |-> Some(b.key_values[index_to_remove]),
             page |-> [b EXCEPT !.readable[index_to_remove] = ~@,
                                !.key_values[index_to_remove] = DefaultKeyValue]]

\* --- the split functions of extendible_hashing.rs --------------------------

bucket_index_of_key(key, directory_page) ==
    get_hash(key) % (2 ^ directory_page.global_depth)

\* local_split_bucket redirecting the slots whose bit is set.
local_split_bucket_ones(directory_page, new_local_depth, new_bucket_page_id, old_bucket_page_id) ==
    LET hit(i) == /\ i < 2 ^ directory_page.global_depth
                  /\ directory_page.bucket_page_ids[i] = old_bucket_page_id
    IN [directory_page EXCEPT
           !.local_depths = [i \in Slots |->
               IF hit(i) THEN new_local_depth ELSE @[i]],
           !.bucket_page_ids = [i \in Slots |->
               IF hit(i) /\ Bit(i, new_local_depth - 1) = 1
               THEN new_bucket_page_id ELSE @[i]]]

\* The loop reads slot i and writes slot i only, so its iterations are
\* independent of each other.
local_split_bucket(directory_page, new_local_depth, new_bucket_page_id, old_bucket_page_id) ==
    LET hit(i) == /\ i < 2 ^ directory_page.global_depth
                  /\ directory_page.bucket_page_ids[i] = old_bucket_page_id
    IN [directory_page EXCEPT
           !.local_depths = [i \in Slots |->
               IF hit(i) THEN new_local_depth ELSE @[i]],
           !.bucket_page_ids = [i \in Slots |->
               IF hit(i) /\ Bit(i, new_local_depth - 1) = 0
               THEN new_bucket_page_id ELSE @[i]]]

\* global_split_bucket that copies the halves and leaves the slot alone.
global_split_bucket_copy_only(directory_page, bucket_index, new_bucket_page_id) ==
    LET half == 2 ^ directory_page.global_depth
        deeper == increment_global_depth(directory_page)
    IN IF half + half > DirectorySlots
       THEN [ok |-> FALSE, page |-> deeper]
       ELSE [ok |-> TRUE,
             page |-> [deeper EXCEPT
                 !.bucket_page_ids = [i \in Slots |->
                     IF half <= i /\ i < half + half
                     THEN directory_page.bucket_page_ids[i - half]
                     ELSE @[i]],
                 !.local_depths = [i \in Slots |->
                     IF half <= i /\ i < half + half
                     THEN directory_page.local_depths[i - half]
                     ELSE @[i]]]]

\* global_split_bucket handing the new bucket to the mirror slot.
global_split_bucket_mirror(directory_page, bucket_index, new_bucket_page_id) ==
    LET half == 2 ^ directory_page.global_depth
        deeper == increment_global_depth(directory_page)
    IN IF half + half > DirectorySlots
       THEN [ok |-> FALSE, page |-> deeper]
       ELSE [ok |-> TRUE,
             page |-> [deeper EXCEPT
                 !.bucket_page_ids = [i \in Slots |->
                     IF i = bucket_index + half THEN new_bucket_page_id
                     ELSE IF half <= i /\ i < half + half
                     THEN directory_page.bucket_page_ids[i - half]
                     ELSE @[i]],
                 !.local_depths = [i \in Slots |->
                     IF half <= i /\ i < half + half
                     THEN directory_page.local_depths[i - half]
                     ELSE @[i]]]]

\* global_split_bucket copying the bucket pointers and no local depth.
global_split_bucket_pointers_only(directory_page, bucket_index, new_bucket_page_id) ==
    LET half == 2 ^ directory_page.global_depth
        deeper == increment_global_depth(directory_page)
    IN IF half + half > DirectorySlots
       THEN [ok |-> FALSE, page |-> deeper]
       ELSE [ok |-> TRUE,
             page |-> [deeper EXCEPT
                 !.bucket_page_ids = [i \in Slots |->
                     IF i = bucket_index THEN new_bucket_page_id
                     ELSE IF half <= i /\ i < half + half
                     THEN directory_page.bucket_page_ids[i - half]
                     ELSE @[i]]]]

\* global_split_bucket that, without room to double the arrays, returns
\* with the depth incremented instead of aborting.
global_split_bucket_unbounded(directory_page, bucket_index, new_bucket_page_id) ==
    LET half == 2 ^ directory_page.global_depth
        deeper == increment_global_depth(directory_page)
    IN IF half + half > DirectorySlots
       THEN [ok |-> TRUE, page |-> deeper]
       ELSE [ok |-> TRUE,
             page |-> [deeper EXCEPT
                 !.bucket_page_ids = [i \in Slots |->
                     IF i = bucket_index THEN new_bucket_page_id
                     ELSE IF half <= i /\ i < half + half
                     THEN directory_page.bucket_page_ids[i - half]
                     ELSE @[i]],
                 !.local_depths = [i \in Slots |->
                     IF half <= i /\ i < half + half
                     THEN directory_page.local_depths[i - half]
                     ELSE @[i]]]]

\* The loop reads the slots below 2^old_global_depth and writes the slots
\* from there on; its first write outside the arrays is the unwrap() that
\* aborts (ok FALSE), with the depth already incremented in this copy.
global_split_bucket(directory_page, bucket_index, new_bucket_page_id) ==
    LET old_global_depth == directory_page.global_depth
        deeper == increment_global_depth(directory_page)
        half == 2 ^ old_global_depth
    IN IF half + half > DirectorySlots
       THEN [ok |-> FALSE, page |-> deeper]
       ELSE LET copied ==
                    [deeper EXCEPT
                        !.bucket_page_ids = [i \in Slots |->
                            IF half <= i /\ i < half + half
                            THEN directory_page.bucket_page_ids[i - half]
                            ELSE @[i]],
                        !.local_depths = [i \in Slots |->
                            IF half <= i /\ i < half + half
                            THEN directory_page.local_depths[i - half]
                            ELSE @[i]]]
            IN set_bucket_page_id(copied, bucket_index, new_bucket_page_id)

\* --- ExtendibleHashing ---------------------------------------------------
(* A handler is written as the chain of its stages: each stage takes what   *)
(* the earlier statements computed and is named after the handler and the   *)
(* statement it starts at.  A stage handed an aborted pool returns it.      *)

\* unwrap()/expect() on an Err or None: the thread aborts with the message.
Panic(s, message) == [s EXCEPT !.panicked = message, !.ok = FALSE, !.ret = None]

\* .expect(message) on the Option a pool call returned.
ExpectSome(r, message) ==
    IF r.panicked # "" THEN r
    ELSE IF r.ret = None THEN Panic(r, message) ELSE r

\* .expect(message) on the Result a pool call returned.
ExpectOk(r, message) ==
    IF r.panicked # "" THEN r
    ELSE IF ~r.ok THEN Panic(r, message) ELSE r

\* What the replacer would pop for a load the index makes.
PopPick(s) == CHOOSE pick \in PopChoices(s.current_pages) : TRUE

\* get_raw_page(frame_id).unwrap() on the frame the last load returned.
get_raw_page(s, frame_id) == s.data[frame_id][1]

expect_load_page(s, page_id, message) ==
    IF s.panicked # "" THEN s
    ELSE ExpectSome(load_page(s, page_id, PopPick(s)), message)

expect_update_page(s, page_id, new_data, message) ==
    IF s.panicked # "" THEN s
    ELSE ExpectOk(update_page(s, page_id, new_data, PopPick(s)), message)

expect_unload_page_id(s, page_id, message) ==
    IF s.panicked # "" THEN s
    ELSE ExpectOk(unload_page_id(s, page_id, s.now), message)

update_directory_and_bucket(s, directory_pid, directory_page, bucket_page_id, bucket_page) ==
    Then(expect_update_page(s, directory_pid, directory_page,
                            "called unwrap() on update_page"), LAMBDA a :
    Then(expect_unload_page_id(a, directory_pid, "Could not unload"), LAMBDA b :
    Then(expect_update_page(b, bucket_page_id, bucket_page,
                            "Could not update bucket page."), LAMBDA c :
         expect_unload_page_id(c, bucket_page_id, "Could not unload"))))

\* The loop of split_bucket from entry i on: the entries whose hash has bit
\* new_local_depth - 1 clear move to the new bucket.
RECURSIVE Rehash(_, _, _, _)
Rehash(i, bucket_page, new_bucket_page, new_local_depth) ==
    IF i = number_of_entries
    THEN [ok |-> TRUE, bucket_page |-> bucket_page,
          new_bucket_page |-> new_bucket_page]
    ELSE IF Bit(get_hash(bucket_page.key_values[i][1]), new_local_depth - 1) = 0
    THEN LET key_value == remove_index(bucket_page, i).ret
             put == HashBucketPage_insert(new_bucket_page,
                                          key_value[1], key_value[2])
         IN IF ~put.ok
            THEN [ok |-> FALSE, bucket_page |-> remove_index(bucket_page, i).page,
                  new_bucket_page |-> new_bucket_page]
            ELSE Rehash(i + 1, remove_index(bucket_page, i).page, put.page,
                        new_local_depth)
    ELSE Rehash(i + 1, bucket_page, new_bucket_page, new_local_depth)

\* What split_bucket leaves: the pool and the caller's two page copies,
\* which it changes through its &mut parameters.
SplitResult(s, bucket_page, directory_page) ==
    [s |-> s, bucket_page |-> bucket_page, directory_page |-> directory_page]

\* split_bucket from the update of the new bucket's page on.
split_bucket_update(s, directory_page, new_bucket_page_id, moved) ==
    IF ~moved.ok
    THEN SplitResult(Panic(s, "Could not insert the value into the new bucket."),
                     moved.bucket_page, directory_page)
    ELSE Then(HashBucketPage_to_raw_page(moved.new_bucket_page), LAMBDA raw :
         Then(expect_update_page(s, new_bucket_page_id, raw,
                                 "Could not update new page"), LAMBDA a :
         Then(expect_unload_page_id(a, new_bucket_page_id,
                                    "Could not unload new bucket page"), LAMBDA b :
              SplitResult(b, moved.bucket_page, directory_page))))

\* split_bucket from the choice between the global and the local split on.
split_bucket_directory(s, bucket_index, bucket_page, directory_page, new_local_depth, new_bucket_page_id, new_bucket_page) ==
    LET old_bucket_page_id == directory_page.bucket_page_ids[bucket_index]
        split ==
            IF directory_page.global_depth < new_local_depth
            THEN global_split_bucket(directory_page, bucket_index,
                                     new_bucket_page_id)
            ELSE [ok |-> TRUE,
                  page |-> local_split_bucket(directory_page, new_local_depth,
                                              new_bucket_page_id,
                                              old_bucket_page_id)]
    IN Then(split, LAMBDA done :
           IF ~done.ok
           THEN SplitResult(Panic(s, "called unwrap() on an Err value: Index out of bounds"),
                            bucket_page, done.page)
           ELSE Then(Rehash(0, bucket_page, new_bucket_page, new_local_depth),
                     LAMBDA moved :
                     split_bucket_update(s, done.page, new_bucket_page_id, moved)))

\* split_bucket after load_new_page returned into s.
split_bucket_new_page(s, bucket_index, bucket_page, directory_page) ==
    IF s.panicked # ""
    THEN SplitResult(s, bucket_page, directory_page)
    ELSE Then(HashBucketPage_from_raw_page(get_raw_page(s, s.ret[1][2])),
              LAMBDA new_bucket_page :
              split_bucket_directory(
                  s, bucket_index, bucket_page, directory_page,
                  directory_page.local_depths[bucket_index],
                  s.ret[1][1], new_bucket_page))

split_bucket(s, bucket_index, bucket_page, directory_page) ==
    Then(increment_local_depth(directory_page, bucket_index), LAMBDA inc :
        IF ~inc.ok
        THEN SplitResult(Panic(s, "called unwrap() on an Err value: Index out of bounds"),
                         bucket_page, directory_page)
        ELSE Then(ExpectSome(load_new_page(s, PopPick(s)),
                             "called unwrap() on a None value"), LAMBDA loaded :
                  split_bucket_new_page(loaded, bucket_index, bucket_page, inc.page)))

RECURSIVE insert_with_lock(_, _, _, _)

\* insert_with_lock after split_bucket returned sp: the write-back of the
\* split, the recursive insert, and the write-back that ends every call,
\* made from this call's own copies.
insert_with_lock_split(sp, directory_pid, bucket_page_id, key, value) ==
    update_directory_and_bucket(
        insert_with_lock(
            update_directory_and_bucket(
                sp.s, directory_pid,
                HashDirectoryPage_to_raw_page(sp.directory_page),
                bucket_page_id,
                HashBucketPage_to_raw_page(sp.bucket_page)),
            directory_pid, key, value),
        directory_pid,
        HashDirectoryPage_to_raw_page(sp.directory_page),
        bucket_page_id,
        HashBucketPage_to_raw_page(sp.bucket_page))

\* insert_with_lock from the is_full test on.
insert_with_lock_bucket(s, directory_pid, key, value, directory_page, bucket_index, bucket_page_id, bucket_page) ==
    IF is_full(bucket_page)
    THEN insert_with_lock_split(
             split_bucket(s, bucket_index, bucket_page, directory_page),
             directory_pid, bucket_page_id, key, value)
    ELSE LET put == HashBucketPage_insert(bucket_page, key, value) IN
         IF ~put.ok
         THEN Panic(s, "Could not insert into the bucket page that wasn't supposed to be full.")
         ELSE update_directory_and_bucket(
                  s, directory_pid,
                  HashDirectoryPage_to_raw_page(directory_page),
                  bucket_page_id,
                  HashBucketPage_to_raw_page(put.page))

\* insert_with_lock after the load of the bucket page returned into s.
insert_with_lock_loaded(s, directory_pid, key, value, directory_page, bucket_index, bucket_page_id) ==
    IF s.panicked # "" THEN s
    ELSE insert_with_lock_bucket(
             s, directory_pid, key, value, directory_page, bucket_index,
             bucket_page_id,
             HashBucketPage_from_raw_page(get_raw_page(s, s.ret[1])))

\* insert_with_lock from the slot computation on.
insert_with_lock_directory(s, directory_pid, key, value, directory_page, bucket_index) ==
    insert_with_lock_loaded(
        expect_load_page(s, directory_page.bucket_page_ids[bucket_index],
                         "Could not load the bucket page"),
        directory_pid, key, value, directory_page, bucket_index,
        directory_page.bucket_page_ids[bucket_index])

\* insert_with_lock after the load of the directory returned into s.
insert_with_lock_parsed(s, directory_pid, key, value, directory_page) ==
    insert_with_lock_directory(s, directory_pid, key, value, directory_page,
                               bucket_index_of_key(key, directory_page))

insert_with_lock_pinned(s, directory_pid, key, value) ==
    IF s.panicked # "" THEN s
    ELSE insert_with_lock_parsed(
             s, directory_pid, key, value,
             HashDirectoryPage_from_raw_page(get_raw_page(s, s.ret[1])))

insert_with_lock(s, directory_pid, key, value) ==
    insert_with_lock_pinned(
        expect_load_page(s, directory_pid, "Could not load the directory page"),
        directory_pid, key, value)

insert(s, directory_pid, key, value) ==
    insert_with_lock(s, directory_pid, key, value)

\* remove from bucket_page.remove on; ret is the Option<(K, V)> returned.
remove_bucket(s, directory_pid, directory_page, bucket_pid, result) ==
    LET r == update_directory_and_bucket(
                 s, directory_pid,
                 HashDirectoryPage_to_raw_page(directory_page),
                 bucket_pid,
                 HashBucketPage_to_raw_page(result.page))
    IN IF r.panicked # "" THEN r ELSE [r EXCEPT !.ret = result.ret]

\* remove after load_page(bucket_pid) returned into s: the ? operator
\* returns None on a failed load.
remove_loaded(s, directory_pid, key, directory_page, bucket_pid) ==
    IF s.panicked # "" THEN s
    ELSE IF s.ret = None THEN s
    ELSE remove_bucket(
             s, directory_pid, directory_page, bucket_pid,
             HashBucketPage_remove(
                 HashBucketPage_from_raw_page(get_raw_page(s, s.ret[1])), key))

\* remove from the slot computation on.
remove_directory(s, directory_pid, key, directory_page, bucket_pid) ==
    remove_loaded(load_page(s, bucket_pid, PopPick(s)),
                  directory_pid, key, directory_page, bucket_pid)

remove_parsed(s, directory_pid, key, directory_page) ==
    remove_directory(
        s, directory_pid, key, directory_page,
        directory_page.bucket_page_ids[bucket_index_of_key(key, directory_page)])

remove_pinned(s, directory_pid, key) ==
    IF s.panicked # "" THEN s
    ELSE remove_parsed(
             s, directory_pid, key,
             HashDirectoryPage_from_raw_page(get_raw_page(s, s.ret[1])))

remove(s, directory_pid, key) ==
    remove_pinned(
        expect_load_page(s, directory_pid, "Could not load directory page"),
        directory_pid, key)

\* setup_new_hashmap from new_empty on; ret is the directory_page_id of the
\* ExtendibleHashing it returns.
setup_new_hashmap_directory(s, new_directory_page_id, bucket1_pid, log_id) ==
    LET r == expect_unload_page_id(
                 expect_update_page(
                     s, new_directory_page_id,
                     HashDirectoryPage_to_raw_page(
                         new_empty(new_directory_page_id, bucket1_pid,
                                   s.ret[1], log_id)),
                     "Could not update directory page"),
                 new_directory_page_id, "called unwrap() on an Err value")
    IN IF r.panicked # "" THEN r ELSE [r EXCEPT !.ret = Some(new_directory_page_id)]

\* setup_new_hashmap after the first allocate_new_page returned into s.
setup_new_hashmap_bucket1(s, new_directory_page_id, log_id) ==
    setup_new_hashmap_directory(allocate_new_page(s), new_directory_page_id,
                                s.ret[1], log_id)

\* setup_new_hashmap after load_new_page returned into s.
setup_new_hashmap_new_page(s, log_id) ==
    IF s.panicked # "" THEN s
    ELSE setup_new_hashmap_bucket1(allocate_new_page(s), s.ret[1][1], log_id)

setup_new_hashmap(s, log_id) ==
    setup_new_hashmap_new_page(
        ExpectSome(load_new_page(s, PopPick(s)), "Could not load a new page"),
        log_id)

\* The bytes a load of the page would find: its frame's when it is
\* resident, the file's otherwise.
PageBytes(s, page_id) ==
    IF page_id \in DOMAIN s.page_table
    THEN s.data[s.page_table[page_id].frame_index][1]
    ELSE s.file[page_id + 1]

\* lookup: directory, slot of the key, scan of the bucket's readable
\* entries; Some(value) of the first entry with the key, or None.
lookup(s, directory_pid, key) ==
    LET directory_page == HashDirectoryPage_from_raw_page(PageBytes(s, directory_pid))
        bucket_index == bucket_index_of_key(key, directory_page)
        bucket_page == HashBucketPage_from_raw_page(
                           PageBytes(s, directory_page.bucket_page_ids[bucket_index]))
        hits == {i \in Entries :
                    bucket_page.readable[i] /\ bucket_page.key_values[i][1] = key}
    IN IF hits = {} THEN None
       ELSE Some(bucket_page.key_values[SetMin(hits)][2])

\* ------------------------------------------------------------------------
\* The index as a state machine: one action per public operation, on a pool
\* that no other client uses
\* ------------------------------------------------------------------------

MaxLogId == 0

HashInit ==
    /\ data = [i \in 0..(HashPoolSize - 1) |-> None]
    /\ page_table = EmptyMap
    /\ current_pages = EmptyMap
    /\ file = <<>>
    /\ now = 0
    /\ panicked = ""
    /\ latest = <<>>
    /\ HashIdle
    /\ StepIdle
    /\ UnitIdle

\* An index operation that returned the pool r.
HashApply(r) == PoolApply(r) /\ UNCHANGED <<latest, dir_view, split_log, uvars, svars>>

SetupNewHashmap ==
    /\ panicked = ""
    /\ directory_page_id = None
    /\ \E log_id \in 0..MaxLogId :
           LET r == setup_new_hashmap(St, log_id) IN
           /\ HashApply(r)
           /\ directory_page_id' = IF r.panicked = "" THEN r.ret ELSE None
    /\ UNCHANGED <<inserted, removals, ops>>

HashInsert ==
    /\ panicked = ""
    /\ directory_page_id # None
    /\ ops < MaxHashOps
    /\ \E key \in Keys, value \in Values :
           /\ HashApply(insert(St, directory_page_id[1], key, value))
           /\ inserted' = inserted \cup {<<key, value>>}
    /\ ops' = ops + 1
    /\ UNCHANGED <<directory_page_id, removals>>

HashRemove ==
    /\ panicked = ""
    /\ directory_page_id # None
    /\ ops < MaxHashOps
    /\ \E key \in Keys : HashApply(remove(St, directory_page_id[1], key))
    /\ removals' = removals + 1
    /\ ops' = ops + 1
    /\ UNCHANGED <<directory_page_id, inserted>>

HashNext ==
    \/ SetupNewHashmap
    \/ HashInsert
    \/ HashRemove

SpecHash == HashInit /\ [][HashNext]_vars

\* The index exists and its thread has not aborted.
HashRunning == panicked = "" /\ directory_page_id # None

\* The directory and a bucket as the next operation would read them.
Directory == HashDirectoryPage_from_raw_page(PageBytes(St, directory_page_id[1]))

Bucket(page_id) == HashBucketPage_from_raw_page(PageBytes(St, page_id))

\* The slots the directory addresses.
LiveSlots == 0..(2 ^ Directory.global_depth - 1)

\* ------------------------------------------------------------------------
\* Claims about the hash index
\* ------------------------------------------------------------------------

\* C13: after any insert(k, v) that returns, splits included, the lookup of
\* k that follows it finds k, and the value it returns is one that this or
\* an earlier insert of k was given.
C13_InsertThenLookup ==
    HashRunning =>
        \A key \in Keys, value \in Values :
            LET r == insert(St, directory_page_id[1], key, value) IN
            r.panicked = "" =>
                LET found == lookup(r, directory_page_id[1], key) IN
                /\ found # None
                /\ <<key, found[1]>> \in inserted \cup {<<key, value>>}

\* C14: after inserts and no remove, every inserted key is still found by
\* lookup, whatever buckets overflowed and split on the way.
C14_InsertedKeysRetrievable ==
    (HashRunning /\ removals = 0) =>
        \A key_value \in inserted :
            lookup(St, directory_page_id[1], key_value[1]) # None

\* C15: for every slot i < 2^G of the persisted directory, every readable
\* entry (k, v) of the bucket slot i references has
\* hash(k) mod 2^local_depth[i] = i mod 2^local_depth[i].
C15_EntriesMatchSlotPrefix ==
    HashRunning =>
        \A i \in LiveSlots :
            LET bucket_page == Bucket(Directory.bucket_page_ids[i])
                local_depth == Directory.local_depths[i]
            IN \A e \in Entries :
                   bucket_page.readable[e] =>
                       get_hash(bucket_page.key_values[e][1]) % (2 ^ local_depth)
                           = i % (2 ^ local_depth)

\* C15's case: a bucket that a split filled by rehashing holds a live entry
\* under a slot of local depth 2 or more.
C15_Witness ==
    /\ HashRunning
    /\ \E i \in LiveSlots :
           /\ Directory.local_depths[i] >= 2
           /\ \E e \in Entries : Bucket(Directory.bucket_page_ids[i]).readable[e]

\* C16: two slots i, j < 2^G of the persisted directory that reference the
\* same bucket page have equal local depths.
C16_AliasedSlotsEqualDepth ==
    HashRunning =>
        \A i, j \in LiveSlots :
            Directory.bucket_page_ids[i] = Directory.bucket_page_ids[j] =>
                Directory.local_depths[i] = Directory.local_depths[j]

\* C16's case: after a split doubled the directory, two slots still share
\* one bucket page.
C16_Witness ==
    /\ HashRunning
    /\ Directory.global_depth >= 2
    /\ \E i, j \in LiveSlots :
           /\ i # j
           /\ Directory.bucket_page_ids[i] = Directory.bucket_page_ids[j]

\* C19: every directory the pool holds has global_depth <= MaxGlobalDepth
\* and local_depths[i] <= global_depth for every i < 2^global_depth, also
\* after an insert aborted; and an insert whose key addresses a full bucket
\* of local depth MaxGlobalDepth aborts.
C19_DepthsBounded ==
    directory_page_id # None =>
        /\ Directory.global_depth <= MaxGlobalDepth
        /\ \A i \in LiveSlots : Directory.local_depths[i] <= Directory.global_depth
        /\ panicked = "" =>
               \A key \in Keys, value \in Values :
                   LET i == bucket_index_of_key(key, Directory) IN
                   (/\ Directory.local_depths[i] = MaxGlobalDepth
                    /\ is_full(Bucket(Directory.bucket_page_ids[i])))
                       => insert(St, directory_page_id[1], key, value).panicked # ""

\* C19's case: an insert aborted in the split of a bucket whose directory
\* had no room to double.
C19_Witness ==
    /\ directory_page_id # None
    /\ panicked # ""
    /\ Directory.global_depth = MaxGlobalDepth

\* The pages of the file other than the directory.
BucketPages == {p \in 0..(Len(file) - 1) : p # directory_page_id[1]}

\* The readable entries of a bucket page of pool s, by entry index.
LiveEntries(s, page_id) ==
    LET b == HashBucketPage_from_raw_page(PageBytes(s, page_id)) IN
    [e \in {x \in Entries : b.readable[x]} |-> b.key_values[e]]

\* C20: remove(k) goes to the bucket of k's slot; if that bucket holds a
\* readable entry with key k it returns Some((k, v)) of one such entry and
\* the bucket written back has exactly that entry's readable flag cleared;
\* otherwise it returns None and the bucket's readable entries are as before;
\* the directory and the readable entries of every other bucket never change.
C20_RemoveClearsOneEntry ==
    HashRunning =>
        \A key \in Keys :
            LET r == remove(St, directory_page_id[1], key)
                pid == Directory.bucket_page_ids[bucket_index_of_key(key, Directory)]
                before == LiveEntries(St, pid)
                after == LiveEntries(r, pid)
                hits == {e \in DOMAIN before : before[e][1] = key}
            IN /\ r.panicked = ""
               /\ HashDirectoryPage_from_raw_page(PageBytes(r, directory_page_id[1]))
                      = Directory
               /\ \A p \in BucketPages \ {pid} :
                      LiveEntries(r, p) = LiveEntries(St, p)
               /\ IF hits = {}
                  THEN r.ret = None /\ after = before
                  ELSE \E e \in hits :
                           /\ r.ret = Some(before[e])
                           /\ after = [x \in DOMAIN before \ {e} |-> before[x]]

\* C20's case: an inserted key was removed again and is no longer found.
C20_Witness ==
    /\ HashRunning
    /\ ops = 2
    /\ removals = 1
    /\ \E key_value \in inserted :
           lookup(St, directory_page_id[1], key_value[1]) = None

\* C21: every hash-index operation (setup_new_hashmap, insert with its
\* splits, remove) unpins each page it pinned: on a pool no other client
\* uses, where no page is pinned before the first operation, no page of the
\* pool is pinned between two operations.
C21_IndexOpsLeaveNoPin ==
    panicked = "" =>
        \A page_id \in DOMAIN page_table : page_table[page_id].ref_count = 0

\* ------------------------------------------------------------------------
\* The split functions on their own: the directory part of split_bucket
\* applied to a new directory, for any slot whose bucket may be full
\* ------------------------------------------------------------------------

\* The page ids setup_new_hashmap gives the directory and its two buckets on
\* an empty file; every split allocates the next page.
FirstSplitPage == 3

DirInit ==
    /\ data = [i \in 0..(HashPoolSize - 1) |-> None]
    /\ page_table = EmptyMap
    /\ current_pages = EmptyMap
    /\ file = <<>>
    /\ now = 0
    /\ panicked = ""
    /\ latest = <<>>
    /\ directory_page_id = None
    /\ inserted = {}
    /\ removals = 0
    /\ ops = 0
    /\ dir_view = new_empty(0, 1, 2, 0)
    /\ split_log = <<>>
    /\ StepIdle
    /\ UnitIdle

\* The splits of one behaviour: the directory has no room for more.
MaxSplits == DirectorySlots

\* What a split of slot bucket_index leaves in the history.
SplitLog(kind, bucket_index, new_local_depth, new_bucket_page_id) ==
    [kind |-> kind, bucket_index |-> bucket_index, before |-> dir_view,
     new_local_depth |-> new_local_depth,
     new_bucket_page_id |-> new_bucket_page_id]

\* split_bucket's directory part when the global depth is below the new
\* local depth.
DirGlobalSplit ==
    /\ panicked = ""
    /\ ops < MaxSplits
    /\ \E bucket_index \in 0..(2 ^ dir_view.global_depth - 1) :
           LET inc == increment_local_depth(dir_view, bucket_index).page
               new_local_depth == inc.local_depths[bucket_index]
               new_bucket_page_id == FirstSplitPage + ops
               split == global_split_bucket(inc, bucket_index, new_bucket_page_id)
           IN /\ inc.global_depth < new_local_depth
              /\ dir_view' = IF split.ok THEN split.page ELSE dir_view
              /\ panicked' = IF split.ok THEN ""
                             ELSE "called unwrap() on an Err value: Index out of bounds"
              /\ split_log' = SplitLog("global", bucket_index, new_local_depth,
                                       new_bucket_page_id)
    /\ ops' = ops + 1
    /\ UNCHANGED <<data, page_table, current_pages, file, now, latest,
                   directory_page_id, inserted, removals, uvars, svars>>

\* split_bucket's directory part otherwise.
DirLocalSplit ==
    /\ panicked = ""
    /\ ops < MaxSplits
    /\ \E bucket_index \in 0..(2 ^ dir_view.global_depth - 1) :
           LET inc == increment_local_depth(dir_view, bucket_index).page
               new_local_depth == inc.local_depths[bucket_index]
               new_bucket_page_id == FirstSplitPage + ops
           IN /\ ~(inc.global_depth < new_local_depth)
              /\ dir_view' = local_split_bucket(inc, new_local_depth,
                                                new_bucket_page_id,
                                                inc.bucket_page_ids[bucket_index])
              /\ split_log' = SplitLog("local", bucket_index, new_local_depth,
                                       new_bucket_page_id)
    /\ ops' = ops + 1
    /\ UNCHANGED <<data, page_table, current_pages, file, now, panicked, latest,
                   directory_page_id, inserted, removals, uvars, svars>>

DirNext ==
    \/ DirGlobalSplit
    \/ DirLocalSplit

SpecDir == DirInit /\ [][DirNext]_vars

\* The last split was of this kind and returned.
Split(kind) == panicked = "" /\ split_log # <<>> /\ split_log.kind = kind

\* Slot i with bit n flipped.
FlipBit(i, n) == IF Bit(i, n) = 0 THEN i + 2 ^ n ELSE i - 2 ^ n

C18_GlobalSplitMirrors ==
    (panicked = "" /\ split_log # <<>>) =>
        LET before == split_log.before
            i == split_log.bucket_index
            half == 2 ^ before.global_depth
            new == split_log.new_bucket_page_id
        IN /\ before.local_depths[i] = before.global_depth
               => split_log.kind = "global"
           /\ split_log.kind = "global" =>
                  /\ dir_view.global_depth = before.global_depth + 1
                  /\ dir_view.bucket_page_ids[i] = new
                  /\ dir_view.bucket_page_ids[i + half] = before.bucket_page_ids[i]
                  /\ dir_view.bucket_page_ids[i + half] # new
                  /\ dir_view.local_depths[i] = before.global_depth + 1
                  /\ dir_view.local_depths[i + half] = before.global_depth + 1
                  /\ \A x \in 0..(half - 1) :
                         x # i =>
                             /\ dir_view.bucket_page_ids[x] = before.bucket_page_ids[x]
                             /\ dir_view.bucket_page_ids[x + half] = before.bucket_page_ids[x]
                             /\ dir_view.local_depths[x] = before.local_depths[x]
                             /\ dir_view.local_depths[x + half] = before.local_depths[x]

\* C18's case: a global split of a directory of depth 2, whose other slots
\* are of both kinds, of depth 1 and of depth 2.
C18_Witness ==
    /\ Split("global")
    /\ split_log.before.global_depth = 2
    /\ \E x \in 0..3 : split_log.before.local_depths[x] = 1

\* ------------------------------------------------------------------------
\* The LRU replacer on its own: add_page, drop_page and
\* pop_least_recently_used in any order, the clock standing still or
\* advancing between two calls
\* ------------------------------------------------------------------------

\* Largest clock reading (milliseconds) of the replacer's own runs.
MaxLruTime == 2

\* The clock readings add_page may take in these runs.
LruClockReadings == {t \in {now, now + 1} : t <= MaxLruTime}

\* LRUReplacer::new: no pool, no file.
LruInit ==
    /\ data = <<>>
    /\ page_table = EmptyMap
    /\ current_pages = EmptyMap
    /\ file = <<>>
    /\ now = 0
    /\ panicked = ""
    /\ latest = <<>>
    /\ HashIdle
    /\ StepIdle
    /\ UnitIdle

\* The history without page_index.
Without(order, page_index) == SelectSeq(order, LAMBDA q : q # page_index)

LruUnchanged ==
    UNCHANGED <<data, page_table, file, panicked, latest, hvars, svars, leaf_page,
                leaf_pairs, internal_page, routed, root_pid, key_size, threads,
                tree_inserted, table_page, table_log, overflow_checks>>

LruAddPage ==
    /\ \E page_index \in PageIds, time_stamp \in LruClockReadings :
           /\ current_pages' = add_page(current_pages, page_index, time_stamp)
           /\ now' = time_stamp
           /\ added' = Append(Without(added, page_index), page_index)
    /\ LruUnchanged

LruDropPage ==
    /\ \E page_index \in PageIds :
           /\ current_pages' = drop_page(current_pages, page_index)
           /\ added' = Without(added, page_index)
    /\ UNCHANGED now
    /\ LruUnchanged

LruPop ==
    /\ \E pick \in PopChoices(current_pages) :
           /\ current_pages' = pop_least_recently_used(current_pages, pick)
           /\ added' = IF pick = None THEN added ELSE Without(added, pick[1])
    /\ UNCHANGED now
    /\ LruUnchanged

LruNext ==
    \/ LruAddPage
    \/ LruDropPage
    \/ LruPop

SpecLru == LruInit /\ [][LruNext]_vars

\* C27: whatever the time between the calls, pop_least_recently_used
\* returns the page that was added earliest among the pages present (a page
\* added again counts from its last add), and None on an empty replacer.
C27_PopReturnsEarliestAdded ==
    \A pick \in PopChoices(current_pages) :
        pick = IF added = <<>> THEN None ELSE Some(added[1])

\* ------------------------------------------------------------------------
\* The table page (src/table/table_page.rs) on its own: insert and remove
\* on a page that starts empty
\* ------------------------------------------------------------------------

\* table_page.rs:26
TUPLE_HEADER_SIZE == 5
\* The end of the fixed header: own_pid, free_space_pointer, tuple_count.
HeaderEnd == 8
\* u16
U16 == 65536

\* Calls made on one table page.
MaxTableOps == 4
\* Largest own_pid of the page.
MaxTablePid == 1
\* The length of a tuple that nearly fills an empty page, and of one that
\* is longer than a page.
LargeTuple == 4088
HugeTuple == 4097

Fill(n) == [i \in 1..n |-> 1]

\* The tuples handed to insert: the two of the unit test, an empty one, a
\* large and a huge one.
TupleInputs == {<<10, 0, 15, 5>>, <<0, 15, 5>>, <<>>, Fill(LargeTuple), Fill(HugeTuple)}

\* The slot ids handed to remove.
SlotInputs == 0..(MaxTableOps - 1)

\* Rid::new
Rid(page_id, slot_id) == <<page_id, slot_id>>

TablePageNew(own_pid) ==
    [own_pid |-> own_pid, free_space_pointer |-> PAGE_SIZE, tuple_count |-> 0,
     tuple_headers |-> <<>>, tuples |-> <<>>]

\* insert after free_space_pointer has been lowered: the room check, then
\* the new header and tuple.  A refused insert keeps the lowered pointer.
TablePage_insert_lowered(page, tuple_data, free_space_pointer) ==
    IF ((page.tuple_count + 1) * TUPLE_HEADER_SIZE) % U16 >= free_space_pointer
    THEN [panicked |-> "", ret |-> None,
          page |-> [page EXCEPT !.free_space_pointer = free_space_pointer]]
    ELSE [panicked |-> "",
          ret |-> Some(Rid(page.own_pid, Len(page.tuple_headers))),
          page |-> [page EXCEPT
              !.free_space_pointer = free_space_pointer,
              !.tuple_headers = Append(@, [tuple_offset |-> free_space_pointer,
                                           tuple_size |-> Len(tuple_data) % U16,
                                           free |-> FALSE]),
              !.tuples = Append(@, [data |-> tuple_data,
                                    own_rid |-> Rid(page.own_pid, Len(page.tuple_headers))]),
              !.tuple_count = (@ + 1) % U16]]

\* TablePage::insert that takes the next slot but leaves free_space_pointer
\* where it was.
TablePage_insert_in_place(page, tuple_data, checks) ==
    TablePage_insert_lowered(page, tuple_data, page.free_space_pointer)

\* TablePage::insert.  free_space_pointer -= len is a u16 subtraction: below
\* zero it panics in a build with overflow checks and wraps in one without.
TablePage_insert(page, tuple_data, checks) ==
    IF page.free_space_pointer >= (Len(tuple_data) % U16)
    THEN TablePage_insert_lowered(page, tuple_data,
             page.free_space_pointer - (Len(tuple_data) % U16))
    ELSE IF checks
    THEN [panicked |-> "attempt to subtract with overflow", ret |-> None, page |-> page]
    ELSE TablePage_insert_lowered(page, tuple_data,
             page.free_space_pointer - (Len(tuple_data) % U16) + U16)

\* TablePage::remove that also gives the slot back.
TablePage_remove_reuse(page, slot_id) ==
    IF page.tuple_count <= slot_id \/ page.tuple_headers[slot_id + 1].free
    THEN [panicked |-> "", ret |-> None, page |-> page]
    ELSE [panicked |-> "",
          ret |-> Some(page.tuples[slot_id + 1]),
          page |-> [page EXCEPT
              !.tuple_headers = SubSeq(@, 1, slot_id),
              !.tuples = SubSeq(@, 1, slot_id),
              !.tuple_count = slot_id]]

\* TablePage::remove.  The refusing branch prints tuple_headers[slot_id],
\* which is an index out of bounds for a slot that was never used.
TablePage_remove(page, slot_id) ==
    IF slot_id >= Len(page.tuple_headers)
    THEN [panicked |-> "index out of bounds", ret |-> None, page |-> page]
    ELSE IF page.tuple_count <= slot_id \/ page.tuple_headers[slot_id + 1].free
    THEN [panicked |-> "", ret |-> None, page |-> page]
    ELSE [panicked |-> "",
          ret |-> Some(page.tuples[slot_id + 1]),
          page |-> [page EXCEPT
              !.tuple_headers[slot_id + 1].free = TRUE,
              !.tuples[slot_id + 1] = [data |-> <<>>,
                                       own_rid |-> Rid(page.own_pid, slot_id)]]]

TableInit ==
    /\ data = <<>>
    /\ page_table = EmptyMap
    /\ current_pages = EmptyMap
    /\ file = <<>>
    /\ now = 0
    /\ panicked = ""
    /\ latest = <<>>
    /\ HashIdle
    /\ StepIdle
    /\ added = <<>>
    /\ leaf_page = <<>>
    /\ leaf_pairs = {}
    /\ internal_page = <<>>
    /\ routed = <<>>
    /\ root_pid = <<>>
    /\ key_size = 0
    /\ threads = <<>>
    /\ tree_inserted = {}
    /\ \E own_pid \in 0..MaxTablePid : table_page = TablePageNew(own_pid)
    /\ table_log = <<>>
    /\ overflow_checks \in BOOLEAN

\* The call r made on table_page.
TableApply(call, r) ==
    /\ table_page' = r.page
    /\ panicked' = r.panicked
    /\ table_log' = Append(table_log, [call EXCEPT !.ret = r.ret])
    /\ UNCHANGED <<data, page_table, current_pages, file, now, latest, hvars, svars,
                   added, leaf_page, leaf_pairs, internal_page, routed, root_pid,
                   key_size, threads, tree_inserted, overflow_checks>>

TableInsert ==
    /\ panicked = ""
    /\ Len(table_log) < MaxTableOps
    /\ \E tuple_data \in TupleInputs :
           TableApply([op |-> "insert", arg |-> tuple_data, ret |-> None],
                      TablePage_insert(table_page, tuple_data, overflow_checks))

TableRemove ==
    /\ panicked = ""
    /\ Len(table_log) < MaxTableOps
    /\ \E slot_id \in SlotInputs :
           TableApply([op |-> "remove", arg |-> slot_id, ret |-> None],
                      TablePage_remove(table_page, slot_id))

TableNext ==
    \/ TableInsert
    \/ TableRemove

SpecTable == TableInit /\ [][TableNext]_vars

\* C28: on a table page that started empty, the slot headers never reach
\* into the tuples: 8 + tuple_count * 5 <= free_space_pointer after every
\* insert, accepted or refused.
C28_HeadersBelowFreeSpace ==
    panicked = "" =>
        HeaderEnd + table_page.tuple_count * TUPLE_HEADER_SIZE
            <= table_page.free_space_pointer

\* C29: an accepted insert of n bytes lowers free_space_pointer by n, appends
\* at index tuple_count the header (new free_space_pointer, n, not free),
\* adds one to tuple_count, returns the rid (own_pid, that index) and leaves
\* the slots before it as they were.
C29_InsertAppendsSlot ==
    panicked = "" =>
        \A tuple_data \in TupleInputs :
            LET r == TablePage_insert(table_page, tuple_data, overflow_checks)
                n == Len(tuple_data)
                slot == table_page.tuple_count
            IN (r.panicked = "" /\ r.ret # None) =>
                /\ r.page.free_space_pointer = table_page.free_space_pointer - n
                /\ r.page.tuple_headers =
                       Append(table_page.tuple_headers,
                              [tuple_offset |-> r.page.free_space_pointer,
                               tuple_size |-> n, free |-> FALSE])
                /\ r.page.tuple_count = slot + 1
                /\ r.ret = Some(Rid(table_page.own_pid, slot))
                /\ SubSeq(r.page.tuples, 1, slot) = table_page.tuples
                /\ r.page.tuples[slot + 1].data = tuple_data

\* The bytes the insert that returned slot_id was given.
InsertedAt(slot_id) ==
    LET e == CHOOSE e \in 1..Len(table_log) :
                 /\ table_log[e].op = "insert"
                 /\ table_log[e].ret = Some(Rid(table_page.own_pid, slot_id))
    IN table_log[e].arg

LiveSlotsOf(page) ==
    {slot_id \in 0..(page.tuple_count - 1) : ~page.tuple_headers[slot_id + 1].free}

\* C30: remove of a live slot returns the bytes that were inserted there and
\* only marks the slot free: tuple_count, free_space_pointer, the slot's
\* offset and size and every other slot stay; a second remove of the slot
\* returns None; an insert accepted afterwards takes the index tuple_count,
\* never the freed slot.
C30_RemoveTombstones ==
    panicked = "" =>
        \A slot_id \in LiveSlotsOf(table_page) :
            LET r == TablePage_remove(table_page, slot_id) IN
            /\ r.panicked = ""
            /\ r.ret = Some([data |-> InsertedAt(slot_id),
                             own_rid |-> Rid(table_page.own_pid, slot_id)])
            /\ r.page = [table_page EXCEPT
                   !.tuple_headers[slot_id + 1].free = TRUE,
                   !.tuples[slot_id + 1].data = <<>>]
            /\ TablePage_remove(r.page, slot_id) =
                   [panicked |-> "", ret |-> None, page |-> r.page]
            /\ \A tuple_data \in TupleInputs :
                   LET i == TablePage_insert(r.page, tuple_data, overflow_checks) IN
                   (i.panicked = "" /\ i.ret # None) =>
                       /\ i.ret = Some(Rid(table_page.own_pid, table_page.tuple_count))
                       /\ i.page.tuple_headers[slot_id + 1].free

\* C30's case: a slot was removed, a second remove of it returned None and a
\* later insert was given the next index.
C30_Witness ==
    /\ panicked = ""
    /\ Len(table_log) = 4
    /\ table_log[1].op = "insert" /\ table_log[1].ret # None
    /\ table_log[2].op = "remove" /\ table_log[2].arg = 0 /\ table_log[2].ret # None
    /\ table_log[3].op = "remove" /\ table_log[3].arg = 0 /\ table_log[3].ret = None
    /\ table_log[4].op = "insert" /\ table_log[4].ret = Some(Rid(table_page.own_pid, 1))
    /\ table_page.tuple_headers[1].free

\* ------------------------------------------------------------------------
\* The B+ tree pages (src/b_plus_tree)
\* ------------------------------------------------------------------------

\* Largest key handed to the tree.
MaxTreeKey == 3
\* Largest slot id of a rid handed to the tree.
MaxRidSlot == 1
\* Largest max_size of a leaf page.
MaxLeafSize == 2
\* Cap on the length a leaf's vectors grow to.
MaxLeafLen == 3
\* Largest number of entries of an internal page.
MaxInternalEntries == 3

TreeKeys == 0..MaxTreeKey
Rids == {Rid(0, slot_id) : slot_id \in 0..MaxRidSlot}

\* Vec::insert and Vec::remove at a 0-based index.
VecInsert(v, index, element) ==
    SubSeq(v, 1, index) \o <<element>> \o SubSeq(v, index + 1, Len(v))

VecRemove(v, index) == SubSeq(v, 1, index) \o SubSeq(v, index + 2, Len(v))

\* The results slice::binary_search may give on an ascending vector: Ok of
\* any index holding the key, or Err of the index where it would be inserted.
binary_search(keys, key) ==
    IF \E i \in 1..Len(keys) : keys[i] = key
    THEN {[ok |-> TRUE, pos |-> i - 1] : i \in {j \in 1..Len(keys) : keys[j] = key}}
    ELSE {[ok |-> FALSE, pos |-> Cardinality({j \in 1..Len(keys) : keys[j] < key})]}

\* --- BPlusTreeInternalPage ------------------------------------------------

\* get_child_node.  The loop reads key_page_pairs[i + 1] for every i up to
\* len - 1, and an index past the end of a Vec panics.
get_child_node(page, key) ==
    LET pairs == page.key_page_pairs
        n == Len(pairs)
        hits == {i \in 1..(n - 2) : key < pairs[i + 2].key /\ key >= pairs[i + 1].key}
    IN IF n < 2
       THEN [panicked |-> "index out of bounds", ret |-> 0]
       ELSE IF key < pairs[2].key
       THEN [panicked |-> "", ret |-> pairs[1].page_id]
       ELSE IF hits # {}
       THEN [panicked |-> "", ret |-> pairs[SetMin(hits) + 1].page_id]
       ELSE [panicked |-> "index out of bounds", ret |-> 0]

get_first_child(page) ==
    IF page.key_page_pairs = <<>> THEN None ELSE Some(page.key_page_pairs[1].page_id)

\* --- BPlusTreeLeafPage ----------------------------------------------------

get_rid_of(page, key, found) ==
    IF found.ok /\ found.pos < Len(page.rids) THEN Some(page.rids[found.pos + 1]) ELSE None

\* BPlusTreeLeafPage::insert pushing the key at the end of keys.
BPlusTreeLeafPage_insert_at_end(page, key, rid, found) ==
    [panicked |-> "", ret |-> Some(found.pos),
     page |-> [page EXCEPT !.keys = Append(@, key),
                           !.rids = VecInsert(@, found.pos, rid)]]

\* BPlusTreeLeafPage::insert; found is the result of the binary search.  The
\* header's current_size is left as it was.
BPlusTreeLeafPage_insert(page, key, rid, found) ==
    IF page.header.current_size = page.header.max_size
    THEN [panicked |-> "not yet implemented: Filled node", ret |-> None, page |-> page]
    ELSE [panicked |-> "", ret |-> Some(found.pos),
          page |-> [page EXCEPT !.keys = VecInsert(@, found.pos, key),
                                !.rids = VecInsert(@, found.pos, rid)]]

\* BPlusTreeLeafPage::remove: the entry at the position of the search is
\* removed whether or not it holds the key; Vec::remove panics past the end.
BPlusTreeLeafPage_remove(page, key, found) ==
    IF page.header.current_size = page.header.max_size \div 2
    THEN [panicked |-> "not yet implemented: Cannot remove object from half-filled node.",
          ret |-> None, page |-> page]
    ELSE IF found.pos >= Len(page.keys)
    THEN [panicked |-> "removal index out of bounds", ret |-> None, page |-> page]
    ELSE [panicked |-> "",
          ret |-> Some(<<page.keys[found.pos + 1], page.rids[found.pos + 1]>>),
          page |-> [page EXCEPT !.keys = VecRemove(@, found.pos),
                                !.rids = VecRemove(@, found.pos)]]

\* ------------------------------------------------------------------------
\* get_child_node on its own, on every internal page of up to
\* MaxInternalEntries entries whose keys from entry 1 on ascend
\* ------------------------------------------------------------------------

\* The internal page own_pid with the given keys; entry i routes to page
\* own_pid + 1 + i.
InternalPageOf(own_pid, keys) ==
    [header |-> [own_pid |-> own_pid, b_plus_tree_page_type |-> 0, lsn |-> 0,
                 current_size |-> Len(keys), max_size |-> MaxInternalEntries,
                 parent_pid |-> 0],
     key_page_pairs |-> [i \in 1..Len(keys) |->
                            [key |-> keys[i], page_id |-> own_pid + i]]]

\* Key vectors of n entries, ascending from the second entry on.
RoutingKeys(n) ==
    {keys \in [1..n -> TreeKeys] : \A i \in 2..(n - 1) : keys[i] < keys[i + 1]}

InternalInit ==
    /\ data = <<>>
    /\ page_table = EmptyMap
    /\ current_pages = EmptyMap
    /\ file = <<>>
    /\ now = 0
    /\ panicked = ""
    /\ latest = <<>>
    /\ HashIdle
    /\ StepIdle
    /\ added = <<>>
    /\ leaf_page = <<>>
    /\ leaf_pairs = {}
    /\ \E n \in 2..MaxInternalEntries, keys \in [1..MaxInternalEntries -> TreeKeys] :
           /\ SubSeq(keys, 1, n) \in RoutingKeys(n)
           /\ \A i \in (n + 1)..MaxInternalEntries : keys[i] = 0
           /\ internal_page = InternalPageOf(0, SubSeq(keys, 1, n))
    /\ routed = <<>>
    /\ root_pid = <<>>
    /\ key_size = 0
    /\ threads = <<>>
    /\ tree_inserted = {}
    /\ table_page = <<>>
    /\ table_log = <<>>
    /\ overflow_checks = FALSE

GetChildNode ==
    /\ panicked = ""
    /\ \E key \in TreeKeys :
           LET r == get_child_node(internal_page, key) IN
           /\ routed' = [key |-> key, ret |-> r.ret]
           /\ panicked' = r.panicked
    /\ UNCHANGED <<data, page_table, current_pages, file, now, latest, hvars, svars,
                   added, leaf_page, leaf_pairs, internal_page, root_pid, key_size,
                   threads, tree_inserted, table_page, table_log, overflow_checks>>

InternalNext == GetChildNode

SpecInternal == InternalInit /\ [][InternalNext]_vars

\* The child the routing rule names for key on a page of n >= 2 entries.
RoutedChild(pairs, key) ==
    LET n == Len(pairs) IN
    IF key < pairs[2].key THEN pairs[1].page_id
    ELSE IF key >= pairs[n].key THEN pairs[n].page_id
    ELSE pairs[CHOOSE i \in 2..(n - 1) : pairs[i].key <= key /\ key < pairs[i + 1].key].page_id

\* C24: on an internal page of n >= 2 entries get_child_node answers for
\* every key: entry 0's child below entry 1's key, entry i's child for
\* entry[i].key <= key < entry[i+1].key, and the last entry's child from the
\* last key on; entry 0's key plays no part.
C24_RoutingTotal ==
    panicked = "" =>
        \A key \in TreeKeys :
            LET r == get_child_node(internal_page, key) IN
            /\ r.panicked = ""
            /\ r.ret = RoutedChild(internal_page.key_page_pairs, key)

\* ------------------------------------------------------------------------
\* The leaf page on its own: insert and remove in any order on a leaf that
\* starts sorted
\* ------------------------------------------------------------------------

\* The leaf own_pid holding the given entries, with no neighbours.
LeafPageOf(own_pid, max_size, keys, rids) ==
    [header |-> [own_pid |-> own_pid, b_plus_tree_page_type |-> 1, lsn |-> 0,
                 current_size |-> Len(keys), max_size |-> max_size,
                 parent_pid |-> 0, next_leaf |-> 0, prev_leaf |-> 0],
     keys |-> keys,
     rids |-> rids]

\* Ascending key vectors (equal keys allowed) of length n.
SortedKeys(n) ==
    {keys \in [1..n -> TreeKeys] : \A i \in 1..(n - 1) : keys[i] <= keys[i + 1]}

\* The pairs a leaf holds.
PairsOf(page) == {<<page.keys[i], page.rids[i]>> : i \in 1..Len(page.keys)}

LeafInit ==
    /\ data = <<>>
    /\ page_table = EmptyMap
    /\ current_pages = EmptyMap
    /\ file = <<>>
    /\ now = 0
    /\ panicked = ""
    /\ latest = <<>>
    /\ HashIdle
    /\ StepIdle
    /\ added = <<>>
    /\ \E max_size \in 0..MaxLeafSize, n \in 0..MaxLeafSize :
           /\ n <= max_size
           /\ \E keys \in SortedKeys(n), rids \in [1..n -> Rids] :
                  leaf_page = LeafPageOf(0, max_size, keys, rids)
    /\ leaf_pairs = PairsOf(leaf_page)
    /\ internal_page = <<>>
    /\ routed = <<>>
    /\ root_pid = <<>>
    /\ key_size = 0
    /\ threads = <<>>
    /\ tree_inserted = {}
    /\ table_page = <<>>
    /\ table_log = <<>>
    /\ overflow_checks = FALSE

LeafUnchanged ==
    UNCHANGED <<data, page_table, current_pages, file, now, latest, hvars, svars, added,
                internal_page, routed, root_pid, key_size, threads, tree_inserted,
                table_page, table_log, overflow_checks>>

LeafInsert ==
    /\ panicked = ""
    /\ Len(leaf_page.keys) < MaxLeafLen
    /\ \E key \in TreeKeys, rid \in Rids :
           \E found \in binary_search(leaf_page.keys, key) :
               LET r == BPlusTreeLeafPage_insert(leaf_page, key, rid, found) IN
               /\ leaf_page' = r.page
               /\ panicked' = r.panicked
               /\ leaf_pairs' = leaf_pairs \cup {<<key, rid>>}
    /\ LeafUnchanged

LeafRemove ==
    /\ panicked = ""
    /\ \E key \in TreeKeys :
           \E found \in binary_search(leaf_page.keys, key) :
               LET r == BPlusTreeLeafPage_remove(leaf_page, key, found) IN
               /\ leaf_page' = r.page
               /\ panicked' = r.panicked
    /\ UNCHANGED leaf_pairs
    /\ LeafUnchanged

LeafNext ==
    \/ LeafInsert
    \/ LeafRemove

SpecLeaf == LeafInit /\ [][LeafNext]_vars

\* C26: after any sequence of insert and remove on a leaf page that started
\* sorted, keys ascend (equal keys allowed), keys and rids have the same
\* length, and rids[i] is a rid that was given together with keys[i].
C26_LeafSortedAndPaired ==
    panicked = "" =>
        /\ Len(leaf_page.keys) = Len(leaf_page.rids)
        /\ \A i \in 1..(Len(leaf_page.keys) - 1) :
               leaf_page.keys[i] <= leaf_page.keys[i + 1]
        /\ PairsOf(leaf_page) \subseteq leaf_pairs

\* C26's case: a leaf of three entries, two of them with equal keys and
\* different rids, after a pair given to it was removed again.
C26_Witness ==
    /\ panicked = ""
    /\ Len(leaf_page.keys) = 3
    /\ \E i \in 1..2 : /\ leaf_page.keys[i] = leaf_page.keys[i + 1]
                       /\ leaf_page.rids[i] # leaf_page.rids[i + 1]
    /\ leaf_page.keys[1] < leaf_page.keys[3]
    /\ leaf_pairs \ PairsOf(leaf_page) # {}

\* ------------------------------------------------------------------------
\* The B+ tree index (src/b_plus_tree/mod.rs) on a pool of its own
\* ------------------------------------------------------------------------

\* rid.rs:8
RID_SIZE == 8
\* size_of::<KeyType>() of the trees opened: u32 and u64 keys.
KeySizes == {4, 8}
\* The frames of the pool the tree runs on.
TreePoolSize == 2
\* Calls made on one tree.
MaxTreeOps == 3
\* The threads that use the tree.
MaxThreads == 2
Threads == 1..MaxThreads

\* A tree page holds one value per field: the 8 header fields of a leaf (6
\* of an internal page), the keys from field 8 on, and the rids, two fields
\* each, in the last max_size * 2 fields of the page.
LeafFields == 8 + MaxLeafSize + MaxLeafSize * 2

RidStart(max_size) == LeafFields - max_size * 2

\* to_raw_page drains keys and rids up to the header's current_size, which
\* panics when a vector is shorter.
BPlusTreeLeafPage_to_raw_page(page) ==
    LET h == page.header
        field(o) ==
            IF o < 8 + h.current_size THEN page.keys[o - 8 + 1]
            ELSE IF o >= RidStart(h.max_size) /\ o < RidStart(h.max_size) + 2 * h.current_size
            THEN page.rids[((o - RidStart(h.max_size)) \div 2) + 1][((o - RidStart(h.max_size)) % 2) + 1]
            ELSE 0
    IN IF h.current_size > Len(page.keys)
       THEN [panicked |-> "range end index out of range", raw |-> ZeroPage]
       ELSE [panicked |-> "",
             raw |-> RawPage(<<h.own_pid, h.b_plus_tree_page_type, h.lsn, h.current_size,
                               h.max_size, h.parent_pid, h.next_leaf, h.prev_leaf>>
                             \o [i \in 1..(LeafFields - 8) |-> field(8 + i - 1)])]

\* from_raw_page decodes each rid from a slice of size_of::<KeyType>() bytes:
\* a slice shorter than a rid fails to decode and the function returns None.
BPlusTreeLeafPage_from_raw_page(raw, ksize) ==
    IF Byte(raw, 3) > 0 /\ ksize < RID_SIZE
    THEN None
    ELSE Some([header |-> [own_pid |-> Byte(raw, 0), b_plus_tree_page_type |-> Byte(raw, 1),
                           lsn |-> Byte(raw, 2), current_size |-> Byte(raw, 3),
                           max_size |-> Byte(raw, 4), parent_pid |-> Byte(raw, 5),
                           next_leaf |-> Byte(raw, 6), prev_leaf |-> Byte(raw, 7)],
               keys |-> [i \in 1..Byte(raw, 3) |-> Byte(raw, 8 + i - 1)],
               rids |-> [i \in 1..Byte(raw, 3) |->
                            <<Byte(raw, RidStart(Byte(raw, 4)) + 2 * (i - 1)),
                              Byte(raw, RidStart(Byte(raw, 4)) + 2 * (i - 1) + 1)>>]])

BPlusTreeInternalPage_to_raw_page(page) ==
    RawPage(<<page.header.own_pid, page.header.b_plus_tree_page_type, page.header.lsn,
              page.header.current_size, page.header.max_size, page.header.parent_pid>>
            \o [i \in 1..(2 * Len(page.key_page_pairs)) |->
                   IF i % 2 = 1 THEN page.key_page_pairs[(i + 1) \div 2].key
                   ELSE page.key_page_pairs[i \div 2].page_id])

\* from_raw_page assigns vec[i] on a Vec::with_capacity(current_size), whose
\* length is 0: the first entry panics.
BPlusTreeInternalPage_from_raw_page(raw) ==
    IF Byte(raw, 3) > 0
    THEN [panicked |-> "index out of bounds: the len is 0", ret |-> None]
    ELSE [panicked |-> "",
          ret |-> Some([header |-> [own_pid |-> Byte(raw, 0),
                                    b_plus_tree_page_type |-> Byte(raw, 1),
                                    lsn |-> Byte(raw, 2), current_size |-> Byte(raw, 3),
                                    max_size |-> Byte(raw, 4), parent_pid |-> Byte(raw, 5)],
                        key_page_pairs |-> <<>>])]

\* BPlusTreePage::from_raw_page: the type byte chooses the decoder.
BPlusTreePage_from_raw_page(raw, ksize) ==
    IF Byte(raw, 1) = 1
    THEN IF BPlusTreeLeafPage_from_raw_page(raw, ksize) = None
         THEN [panicked |-> "", ret |-> None]
         ELSE [panicked |-> "",
               ret |-> Some([leaf |-> TRUE,
                             page |-> BPlusTreeLeafPage_from_raw_page(raw, ksize)[1]])]
    ELSE IF Byte(raw, 1) = 0
    THEN IF BPlusTreeInternalPage_from_raw_page(raw).ret = None
         THEN BPlusTreeInternalPage_from_raw_page(raw)
         ELSE [panicked |-> "",
               ret |-> Some([leaf |-> FALSE,
                             page |-> BPlusTreeInternalPage_from_raw_page(raw).ret[1]])]
    ELSE [panicked |-> "", ret |-> None]

\* The descent of get_leaf_of and get_first_leaf from the page just loaded
\* into s (s.ret is its frame): first is TRUE for get_first_leaf.  No page
\* is unloaded on the way; ret is Some(leaf page) or None.
RECURSIVE descend(_, _, _, _)
descend_child(s, next, key, ksize, first) ==
    IF next.panicked # "" THEN Panic(s, next.panicked)
    ELSE IF next.ret = None THEN [s EXCEPT !.ok = FALSE, !.ret = None]
    ELSE descend(load_page(s, next.ret[1], PopPick(s)), key, ksize, first)

descend_page(s, decoded, key, ksize, first) ==
    IF decoded.panicked # "" THEN Panic(s, decoded.panicked)
    ELSE IF decoded.ret = None THEN [s EXCEPT !.ok = FALSE, !.ret = None]
    ELSE IF decoded.ret[1].leaf THEN [s EXCEPT !.ok = TRUE, !.ret = Some(decoded.ret[1].page)]
    ELSE IF first
    THEN descend_child(s, [panicked |-> "", ret |-> get_first_child(decoded.ret[1].page)],
                       key, ksize, first)
    ELSE descend_child(s, [panicked |-> get_child_node(decoded.ret[1].page, key).panicked,
                           ret |-> Some(get_child_node(decoded.ret[1].page, key).ret)],
                       key, ksize, first)

descend(s, key, ksize, first) ==
    IF s.panicked # "" THEN s
    ELSE IF s.ret = None THEN [s EXCEPT !.ok = FALSE]
    ELSE descend_page(s, BPlusTreePage_from_raw_page(get_raw_page(s, s.ret[1]), ksize),
                      key, ksize, first)

get_leaf_of(s, root, key, ksize) ==
    descend(load_page(s, root, PopPick(s)), key, ksize, FALSE)

get_first_leaf(s, root, ksize) ==
    descend(load_page(s, root, PopPick(s)), 0, ksize, TRUE)

\* The result of the binary search the leaf makes for key; tie chooses among
\* the entries that hold the key.
FoundAt(keys, key, tie) ==
    LET found == binary_search(keys, key)
        positions == {f.pos : f \in found}
        nth == CHOOSE pos \in positions :
                   Cardinality({q \in positions : q < pos}) = tie % Cardinality(positions)
    IN CHOOSE f \in found : f.pos = nth

\* BPlusTreeIndex::search: the pool after the call, ret the rid or None.
search_leaf(s, key, tie) ==
    IF s.panicked # "" \/ s.ret = None THEN s
    ELSE [s EXCEPT !.ret = get_rid_of(s.ret[1], key, FoundAt(s.ret[1].keys, key, tie))]

search(s, root, key, ksize, tie) == search_leaf(get_leaf_of(s, root, key, ksize), key, tie)

\* BPlusTreeIndex::insert after get_leaf_of has returned and released the
\* pool: the insert into the thread's own copy of the leaf.  ret is
\* Some(leaf) for the write-back to come, or None.
insert_leaf(s, key, rid, tie) ==
    IF s.panicked # "" \/ s.ret = None THEN s
    ELSE IF BPlusTreeLeafPage_insert(s.ret[1], key, rid, FoundAt(s.ret[1].keys, key, tie)).panicked # ""
    THEN Panic(s, BPlusTreeLeafPage_insert(s.ret[1], key, rid, FoundAt(s.ret[1].keys, key, tie)).panicked)
    ELSE [s EXCEPT !.ret =
             Some(BPlusTreeLeafPage_insert(s.ret[1], key, rid,
                                           FoundAt(s.ret[1].keys, key, tie)).page)]

\* insert's second hold of the pool: update_page of the leaf's own page with
\* the thread's copy.  ret is Some(<<>>), the unit value, or None.
insert_write_back_raw(s, own_pid, encoded) ==
    IF encoded.panicked # "" THEN Panic(s, encoded.panicked)
    ELSE IF ~update_page(s, own_pid, encoded.raw, PopPick(s)).ok
    THEN [update_page(s, own_pid, encoded.raw, PopPick(s)) EXCEPT !.ret = None]
    ELSE [update_page(s, own_pid, encoded.raw, PopPick(s)) EXCEPT !.ret = Some(<<>>)]

insert_write_back(s, leaf) ==
    insert_write_back_raw(s, leaf.header.own_pid, BPlusTreeLeafPage_to_raw_page(leaf))

\* insert holding the pool from the descent to the write-back: the copy
\* written back is the one read under the same hold.
BPlusTreeIndex_insert_alone(s, root, key, rid, ksize, tie) ==
    IF insert_leaf(get_leaf_of(s, root, key, ksize), key, rid, tie).panicked # ""
       \/ insert_leaf(get_leaf_of(s, root, key, ksize), key, rid, tie).ret = None
    THEN insert_leaf(get_leaf_of(s, root, key, ksize), key, rid, tie)
    ELSE insert_write_back(
             [insert_leaf(get_leaf_of(s, root, key, ksize), key, rid, tie)
                 EXCEPT !.ret = None, !.ok = TRUE],
             insert_leaf(get_leaf_of(s, root, key, ksize), key, rid, tie).ret[1])

\* --- the tree as a state machine -------------------------------------------

Idle == [pc |-> "idle"]

\* A tree whose root, page 0, is a leaf.
LeafTree(leaf) == <<BPlusTreeLeafPage_to_raw_page(leaf).raw>>

\* A tree whose root, page 0, is an internal page over the leaves of pages 1
\* and 2, split at key 2.
TwoLevelTree ==
    <<BPlusTreeInternalPage_to_raw_page(InternalPageOf(0, <<0, 2>>)),
      BPlusTreeLeafPage_to_raw_page(LeafPageOf(1, MaxLeafSize, <<>>, <<>>)).raw,
      BPlusTreeLeafPage_to_raw_page(LeafPageOf(2, MaxLeafSize, <<>>, <<>>)).raw>>

\* A tree whose root is an internal page without entries.
EmptyRootTree == <<BPlusTreeInternalPage_to_raw_page(InternalPageOf(0, <<>>))>>

TreeInit ==
    /\ data = [i \in 0..(TreePoolSize - 1) |-> None]
    /\ page_table = EmptyMap
    /\ current_pages = EmptyMap
    /\ \/ \E max_size \in 1..MaxLeafSize, n \in 0..MaxLeafSize :
              /\ n <= max_size
              /\ \E keys \in SortedKeys(n), rids \in [1..n -> Rids] :
                     file = LeafTree(LeafPageOf(0, max_size, keys, rids))
       \/ file = TwoLevelTree
       \/ file = EmptyRootTree
    /\ now = 0
    /\ panicked = ""
    /\ latest = <<>>
    /\ directory_page_id = <<>>
    /\ inserted = {}
    /\ removals = 0
    /\ ops = 0
    /\ dir_view = <<>>
    /\ split_log = <<>>
    /\ StepIdle
    /\ added = <<>>
    /\ leaf_page = <<>>
    /\ leaf_pairs = {}
    /\ internal_page = <<>>
    /\ routed = <<>>
    /\ root_pid = Some(0)
    /\ key_size \in KeySizes
    /\ threads = [t \in Threads |-> Idle]
    /\ tree_inserted = {}
    /\ table_page = <<>>
    /\ table_log = <<>>
    /\ overflow_checks = FALSE

\* A call on the tree that left the pool as r.
TreeApply(r) ==
    /\ PoolApply(r)
    /\ ops' = ops + 1
    /\ UNCHANGED <<latest, directory_page_id, inserted, removals, dir_view, split_log,
                   added, leaf_page, leaf_pairs, internal_page, routed, root_pid,
                   key_size, table_page, table_log, overflow_checks, svars>>

TreeSearch ==
    /\ panicked = ""
    /\ ops < MaxTreeOps
    /\ \E t \in Threads, key \in TreeKeys :
           /\ threads[t] = Idle
           /\ TreeApply(search(St, root_pid[1], key, key_size, 0))
    /\ UNCHANGED <<threads, tree_inserted>>

TreeFirstLeaf ==
    /\ panicked = ""
    /\ ops < MaxTreeOps
    /\ \E t \in Threads :
           /\ threads[t] = Idle
           /\ TreeApply(get_first_leaf(St, root_pid[1], key_size))
    /\ UNCHANGED <<threads, tree_inserted>>

\* insert up to the point where get_leaf_of has returned and the key is in
\* the thread's copy of the leaf.
TreeInsertDescend ==
    /\ panicked = ""
    /\ ops < MaxTreeOps
    /\ \E t \in Threads, key \in TreeKeys, rid \in Rids, tie \in 0..(MaxLeafLen - 1) :
           /\ threads[t] = Idle
           /\ LET r == insert_leaf(get_leaf_of(St, root_pid[1], key, key_size), key, rid, tie) IN
              /\ TreeApply(r)
              /\ threads' = IF r.panicked = "" /\ r.ret # None
                            THEN [threads EXCEPT ![t] = [pc |-> "write_back", leaf |-> r.ret[1],
                                                         key |-> key, rid |-> rid]]
                            ELSE threads
    /\ UNCHANGED tree_inserted

\* The rest of insert: the pool is taken again and the copy written back.
TreeInsertWriteBack ==
    /\ panicked = ""
    /\ \E t \in Threads :
           /\ threads[t].pc = "write_back"
           /\ LET r == insert_write_back(St, threads[t].leaf) IN
              /\ PoolApply(r)
              /\ tree_inserted' = IF r.panicked = "" /\ r.ret # None
                                  THEN tree_inserted \cup {<<threads[t].key, threads[t].rid>>}
                                  ELSE tree_inserted
           /\ threads' = [threads EXCEPT ![t] = Idle]
    /\ UNCHANGED <<latest, hvars, svars, added, leaf_page, leaf_pairs, internal_page, routed,
                   root_pid, key_size, table_page, table_log, overflow_checks>>

TreeNext ==
    \/ TreeSearch
    \/ TreeFirstLeaf
    \/ TreeInsertDescend
    \/ TreeInsertWriteBack

SpecTree == TreeInit /\ [][TreeNext]_vars

\* ------------------------------------------------------------------------
\* Claims about the B+ tree index
\* ------------------------------------------------------------------------

\* No thread is inside an insert.
TreeQuiet == panicked = "" /\ \A t \in Threads : threads[t] = Idle

\* The root page as the next descent would decode it, when it is a leaf.
RootLeaf(s) == BPlusTreeLeafPage_from_raw_page(PageBytes(s, root_pid[1]), key_size)

\* C22: an index mutation holds the pool from its first pin to its final
\* write-back, so no other thread's operation comes in between: while a
\* thread is between the descent of its B+ tree insert and the write-back of
\* the leaf, the only step taken is that write-back.
C22_NoInterleaving ==
    [][\A t \in Threads :
           threads[t].pc = "write_back" => threads'[t].pc # "write_back"]_vars

\* C23: after an insert(k, rid) that returned Some on a leaf with room
\* (current_size < max_size), the leaf written back holds the entry at its
\* binary-search position, its current_size is one more than before, and
\* search(k) returns a rid that was inserted with k.
C23_InsertThenSearch ==
    (TreeQuiet /\ Byte(PageBytes(St, root_pid[1]), 1) = 1 /\ RootLeaf(St) # None) =>
        \A key \in TreeKeys, rid \in Rids, tie \in 0..(MaxLeafLen - 1) :
            LET before == RootLeaf(St)[1]
                r == BPlusTreeIndex_insert_alone(St, root_pid[1], key, rid, key_size, tie)
                pos == FoundAt(before.keys, key, tie).pos
            IN (/\ before.header.current_size < before.header.max_size
                /\ r.panicked = ""
                /\ r.ret # None) =>
                   /\ RootLeaf(r) # None
                   /\ RootLeaf(r)[1].header.current_size = before.header.current_size + 1
                   /\ RootLeaf(r)[1].keys = VecInsert(before.keys, pos, key)
                   /\ RootLeaf(r)[1].rids = VecInsert(before.rids, pos, rid)
                   /\ \A tie2 \in 0..(MaxLeafLen - 1) :
                          LET f == search(r, root_pid[1], key, key_size, tie2) IN
                          /\ f.panicked = ""
                          /\ f.ret # None
                          /\ <<key, f.ret[1]>> \in PairsOf(before) \cup {<<key, rid>>}

\* C25: a descent (search, insert, leftmost leaf) unpins every page it
\* pinned before it returns: on a pool that only the tree uses, no page is
\* pinned while no tree operation is running.
C25_DescentLeavesNoPin ==
    TreeQuiet =>
        \A page_id \in DOMAIN page_table : page_table[page_id].ref_count = 0

\* ------------------------------------------------------------------------
\* Further claims about the table page
\* ------------------------------------------------------------------------

\* C40: a TablePage insert refused for lack of space returns None and leaves
\* the page as it was before the call (free_space_pointer, tuple_count, slot
\* headers and tuples), and free_space_pointer never wraps below zero: no
\* insert leaves it above the value it had.
C40_RefusedInsertLeavesPage ==
    panicked = "" =>
        \A tuple_data \in TupleInputs :
            LET r == TablePage_insert(table_page, tuple_data, overflow_checks) IN
            /\ (r.panicked = "" /\ r.ret = None) => r.page = table_page
            /\ r.page.free_space_pointer <= table_page.free_space_pointer

\* ------------------------------------------------------------------------
\* Further claims about the LRU replacer
\* ------------------------------------------------------------------------

\* C35: drop_page(p) on a replacer holding p returns Some(p) and removes p,
\* so that no pop returns p until it is added again, the other pages keeping
\* their stamps; on a replacer without p it returns None and leaves the
\* replacer as it was.
C35_DropPageRemovesOrNone ==
    \A page_index \in PageIds :
        LET after == drop_page(current_pages, page_index)
            ret == drop_page_ret(current_pages, page_index)
        IN IF page_index \in DOMAIN current_pages
           THEN /\ ret = Some(page_index)
                /\ DOMAIN after = DOMAIN current_pages \ {page_index}
                /\ \A q \in DOMAIN after : after[q] = current_pages[q]
                /\ Some(page_index) \notin PopChoices(after)
                /\ \A pick \in PopChoices(after) :
                       Some(page_index) \notin
                           PopChoices(pop_least_recently_used(after, pick))
           ELSE /\ ret = None
                /\ after = current_pages

\* C35's case: a replacer that holds two pages with different stamps and
\* lacks a third one, after a page stamped in between has left it.
C35_Witness ==
    /\ Cardinality(DOMAIN current_pages) = 2
    /\ PageIds \ DOMAIN current_pages # {}
    /\ \E p, q \in DOMAIN current_pages : current_pages[p] = 0 /\ current_pages[q] = 2
    /\ added # <<>>

\* C36: the replacer owned by the buffer pool never holds more page ids than
\* the pool has frames (its capacity, POOL_SIZE), and holds no page id twice.
C36_ReplacerWithinCapacity ==
    Cardinality(DOMAIN current_pages) <= POOL_SIZE(St)

\* ------------------------------------------------------------------------
\* Further claims about the buffer pool
\* ------------------------------------------------------------------------

\* C34: allocate_new_page returns file_length / PAGE_SIZE, appends exactly
\* one zero page with that id to the file and pins nothing: page_table, the
\* frames and the replacer are as before; the next allocation returns the
\* next id, and the file length stays a multiple of PAGE_SIZE.
C34_AllocateAppendsUnpinned ==
    Running =>
        LET r == allocate_new_page(St)
            r2 == allocate_new_page(r)
        IN /\ r.panicked = ""
           /\ r.ret = Some(get_file_length(file) \div PAGE_SIZE)
           /\ r.file = Append(file, ZeroPage)
           /\ r.page_table = page_table
           /\ r.data = data
           /\ r.current_pages = current_pages
           /\ r2.ret = Some(r.ret[1] + 1)
           /\ r2.file = Append(r.file, ZeroPage)
           /\ get_file_length(r.file) = get_file_length(file) + PAGE_SIZE
           /\ get_file_length(r.file) % PAGE_SIZE = 0

\* C34's case: two pages were allocated after a page had been loaded and
\* updated; they are on the file, zero-filled, and not in the page table,
\* while the first page is pinned.
C34_Witness ==
    /\ Running
    /\ Len(file) = 3
    /\ file[2] = ZeroPage /\ file[3] = ZeroPage
    /\ DOMAIN page_table = {0}
    /\ page_table[0].ref_count >= 1
    /\ page_table[0].dirty


\* C33: a setup_new_hashmap that returns has taken three distinct page ids,
\* the three next pages of the file, and the directory a reader then finds
\* under the id it returned has its own page id, global_depth 1, local depth
\* 1 in slots 0 and 1, two bucket page ids that differ from each other and
\* from the directory's, and both buckets without a readable entry.
C33_SetupWritesTwoEmptyBuckets ==
    Running =>
        LET r == setup_new_hashmap(St, 0)
            d == HashDirectoryPage_from_raw_page(PageBytes(r, r.ret[1]))
            b1 == d.bucket_page_ids[0]
            b2 == d.bucket_page_ids[1]
        IN r.panicked = "" =>
               /\ r.ret # None
               /\ Len(r.file) = Len(file) + 3
               /\ {r.ret[1], b1, b2} = Len(file)..(Len(file) + 2)
               /\ d.page_id = r.ret[1]
               /\ d.global_depth = 1
               /\ d.local_depths[0] = 1 /\ d.local_depths[1] = 1
               /\ b1 # b2 /\ b1 # r.ret[1] /\ b2 # r.ret[1]
               /\ DOMAIN LiveEntries(r, b1) = {}
               /\ DOMAIN LiveEntries(r, b2) = {}

\* A pool with every frame taken and written pages on file, on which
\* setup_new_hashmap evicts a page and returns.
C33_Witness ==
    /\ Running
    /\ setup_new_hashmap(St, 0).panicked = ""
    /\ \A i \in DOMAIN data : data[i] # None
    /\ \E i \in 1..Len(file) : file[i] # ZeroPage


\* The pool a second thread finds once the thread that won the pool mutex
\* has loaded page_id into r: r itself, or r after a third thread's served
\* load of another page (which may evict, but not page_id).
BetweenLoads(r, page_id) ==
    {r} \cup {m \in {load_page(r, q, pick) : q \in PageIds \ {page_id},
                                              pick \in PopChoices(r.current_pages)} :
                  m.panicked = "" /\ m.ret # None}

\* The ref_count the pool s records for page_id, 0 when it has no entry.
RefCount(s, page_id) ==
    IF page_id \in DOMAIN s.page_table THEN s.page_table[page_id].ref_count ELSE 0

\* C32: two threads that race to load_page the same p take the pool mutex
\* one after the other; when the first is served, the second receives the
\* same frame_index, finds p in page_table (so it reads nothing from disk and
\* changes neither the frames nor the file), page_table maps p to that one
\* frame, and p's ref_count is 2 above what it was before the race.
C32_RacingLoadsShareFrame ==
    Running =>
        \A page_id \in PageIds, pick \in PopChoices(current_pages) :
            LET r1 == load_page(St, page_id, pick) IN
            (r1.panicked = "" /\ r1.ret # None) =>
                \A m \in BetweenLoads(r1, page_id) :
                    LET r2 == load_page(m, page_id, PopPick(m)) IN
                    /\ r2.panicked = ""
                    /\ r2.ret = r1.ret
                    /\ page_id \in DOMAIN m.page_table
                    /\ r2.data = m.data
                    /\ r2.file = m.file
                    /\ r2.page_table[page_id].frame_index = r1.ret[1]
                    /\ RefCount(r2, page_id) = RefCount(St, page_id) + 2

\* A full pool in which the first of two racing loads of an absent page
\* evicts a page and is served.
C32_Witness ==
    /\ Running
    /\ Cardinality(DOMAIN page_table) = POOL_SIZE(St)
    /\ POOL_SIZE(St) = 2
    /\ \E page_id \in OnDisk \ DOMAIN page_table, pick \in PopChoices(current_pages) :
           LET r1 == load_page(St, page_id, pick) IN
           r1.panicked = "" /\ r1.ret # None /\ BetweenLoads(r1, page_id) # {r1}


\* ------------------------------------------------------------------------
\* Further claims about the hash index
\* ------------------------------------------------------------------------

\* The readable entries of a bucket page copy, by entry index.
LiveOf(b) == [e \in {x \in Entries : b.readable[x]} |-> b.key_values[e]]

\* How many of the entries f hold the pair key_value.
CountIn(f, key_value) == Cardinality({e \in DOMAIN f : f[e] = key_value})

\* The pool insert_with_lock has when it reaches the is_full test for key:
\* the directory and the key's bucket are loaded.
PinnedFor(key) ==
    expect_load_page(
        expect_load_page(St, directory_page_id[1], "Could not load the directory page"),
        Directory.bucket_page_ids[bucket_index_of_key(key, Directory)],
        "Could not load the bucket page")

\* split_bucket as insert_with_lock calls it for a key whose bucket is full.
SplitFor(key) ==
    split_bucket(PinnedFor(key), bucket_index_of_key(key, Directory),
                 Bucket(Directory.bucket_page_ids[bucket_index_of_key(key, Directory)]),
                 Directory)

\* The pool after the write-back insert_with_lock makes of the split sp of
\* the bucket bucket_page_id.
SplitWritten(sp, bucket_page_id) ==
    update_directory_and_bucket(
        sp.s, directory_page_id[1],
        HashDirectoryPage_to_raw_page(sp.directory_page),
        bucket_page_id,
        HashBucketPage_to_raw_page(sp.bucket_page))

\* C38: a split of a full bucket B that returns has moved entries, never
\* lost or duplicated them: every key-value pair occurs in B and the new
\* bucket B' together as often as it occurred in B before, B' holds only
\* entries whose hash has bit L-1 clear and B only entries with that bit
\* set (L the new local depth), the insert into B' never fails for lack of
\* room, and the pages a reader then finds hold exactly these entries.
C38_SplitMovesEntries ==
    HashRunning =>
        \A key \in Keys :
            LET bucket_index == bucket_index_of_key(key, Directory)
                old_pid == Directory.bucket_page_ids[bucket_index]
                before == LiveOf(Bucket(old_pid))
                sp == SplitFor(key)
                new_pid == Len(file)
                L == sp.directory_page.local_depths[bucket_index]
                w == SplitWritten(sp, old_pid)
                old_after == LiveEntries(w, old_pid)
                new_after == LiveEntries(w, new_pid)
            IN is_full(Bucket(old_pid)) =>
                   /\ sp.s.panicked # "Could not insert the value into the new bucket."
                   /\ w.panicked = "" =>
                          /\ \A key_value \in Keys \X Values :
                                 CountIn(before, key_value) =
                                     CountIn(old_after, key_value)
                                     + CountIn(new_after, key_value)
                          /\ \A e \in DOMAIN new_after :
                                 Bit(get_hash(new_after[e][1]), L - 1) = 0
                          /\ \A e \in DOMAIN old_after :
                                 Bit(get_hash(old_after[e][1]), L - 1) = 1
                          /\ old_after = LiveOf(sp.bucket_page)

\* A full bucket whose split returns and leaves an entry on each side.
C38_Witness ==
    /\ HashRunning
    /\ \E key \in Keys :
           LET old_pid == Directory.bucket_page_ids[bucket_index_of_key(key, Directory)]
               w == SplitWritten(SplitFor(key), old_pid)
           IN /\ is_full(Bucket(old_pid))
              /\ w.panicked = ""
              /\ DOMAIN LiveEntries(w, old_pid) # {}
              /\ DOMAIN LiveEntries(w, Len(file)) # {}


\* ------------------------------------------------------------------------
\* The recursion of insert_with_lock, one call at a time
\* ------------------------------------------------------------------------

MaxInsertCalls == 3

\* The deepest call_stack the model follows; the claim is that it is never
\* reached.
MaxStack == MaxGlobalDepth + 2

\* A call of insert_with_lock that has been made and has not run yet.
Called(key, value) == [at |-> "called", key |-> key, value |-> value]

\* A call of insert_with_lock that split its bucket and waits for the call
\* it made to return: the copies it will write back, and the local depth it
\* found in the key's slot.
Waiting(key, value, directory_page, bucket_page_id, bucket_page, found) ==
    [at |-> "split", key |-> key, value |-> value,
     directory_page |-> directory_page, bucket_page_id |-> bucket_page_id,
     bucket_page |-> bucket_page, found |-> found]

\* What one call of insert_with_lock has done when it returns or calls
\* itself: s is the pool it leaves, frame what it keeps while it waits.
Returned(s, key, value) == [s |-> s, recurses |-> FALSE, frame |-> Called(key, value)]

Restarted(s, frame) == [s |-> s, recurses |-> TRUE, frame |-> frame]

\* insert_with_lock on a bucket that is not full: insert and write back.
insert_with_lock_put(s, directory_pid, key, value, directory_page, bucket_page_id, bucket_page) ==
    Then(HashBucketPage_insert(bucket_page, key, value), LAMBDA put :
        IF ~put.ok
        THEN Panic(s, "Could not insert into the bucket page that wasn't supposed to be full.")
        ELSE update_directory_and_bucket(s, directory_pid,
                                         HashDirectoryPage_to_raw_page(directory_page),
                                         bucket_page_id,
                                         HashBucketPage_to_raw_page(put.page)))

\* insert_with_lock on a full bucket, up to the call it makes of itself:
\* split_bucket and the write-back of the split.
insert_with_lock_restart(s, directory_pid, key, value, directory_page, bucket_index, bucket_page_id, bucket_page) ==
    Then(split_bucket(s, bucket_index, bucket_page, directory_page), LAMBDA sp :
    Then(HashDirectoryPage_to_raw_page(sp.directory_page), LAMBDA directory_raw :
    Then(HashBucketPage_to_raw_page(sp.bucket_page), LAMBDA bucket_raw :
    Then(update_directory_and_bucket(sp.s, directory_pid, directory_raw,
                                     bucket_page_id, bucket_raw), LAMBDA w :
         Restarted(w, Waiting(key, value, sp.directory_page, bucket_page_id,
                              sp.bucket_page,
                              directory_page.local_depths[bucket_index]))))))

\* insert_with_lock from the is_full test on.
insert_with_lock_step(s, directory_pid, key, value, directory_page, bucket_index, bucket_page_id, bucket_page) ==
    IF is_full(bucket_page)
    THEN insert_with_lock_restart(s, directory_pid, key, value, directory_page,
                                  bucket_index, bucket_page_id, bucket_page)
    ELSE Returned(insert_with_lock_put(s, directory_pid, key, value, directory_page,
                                       bucket_page_id, bucket_page),
                  key, value)

\* insert_with_lock after the load of the directory returned into s1.
insert_with_lock_bucket_of(s1, directory_pid, key, value, directory_page, bucket_index) ==
    Then(expect_load_page(s1, directory_page.bucket_page_ids[bucket_index],
                          "Could not load the bucket page"), LAMBDA s2 :
        IF s2.panicked # "" THEN Returned(s2, key, value)
        ELSE Then(HashBucketPage_from_raw_page(get_raw_page(s2, s2.ret[1])),
                  LAMBDA bucket_page :
                  insert_with_lock_step(s2, directory_pid, key, value, directory_page,
                                        bucket_index,
                                        directory_page.bucket_page_ids[bucket_index],
                                        bucket_page)))

\* One call of insert_with_lock from its first line to its return or to the
\* call it makes of itself.
insert_with_lock_enter(s, directory_pid, key, value) ==
    Then(expect_load_page(s, directory_pid, "Could not load the directory page"),
         LAMBDA s1 :
        IF s1.panicked # "" THEN Returned(s1, key, value)
        ELSE Then(HashDirectoryPage_from_raw_page(get_raw_page(s1, s1.ret[1])),
                  LAMBDA directory_page :
             Then(bucket_index_of_key(key, directory_page), LAMBDA bucket_index :
                  insert_with_lock_bucket_of(s1, directory_pid, key, value,
                                             directory_page, bucket_index))))

\* The write-back that ends a call whose own call has returned.
insert_with_lock_return(s, directory_pid, frame) ==
    update_directory_and_bucket(s, directory_pid,
                                HashDirectoryPage_to_raw_page(frame.directory_page),
                                frame.bucket_page_id,
                                HashBucketPage_to_raw_page(frame.bucket_page))

Top == call_stack[Len(call_stack)]

Pop(stack) == SubSeq(stack, 1, Len(stack) - 1)

InsertApply(r) ==
    /\ PoolApply(r)
    /\ UNCHANGED <<latest, directory_page_id, inserted, removals, dir_view, split_log,
                   uvars, buffer_pool_lock, file_manager_lock, pc>>

\* insert: the first call of insert_with_lock.
InsertCall ==
    /\ HashRunning
    /\ call_stack = <<>>
    /\ ops < MaxInsertCalls
    /\ \E key \in Keys, value \in Values : call_stack' = <<Called(key, value)>>
    /\ ops' = ops + 1
    /\ UNCHANGED <<data, page_table, current_pages, file, now, panicked, latest,
                   directory_page_id, inserted, removals, dir_view, split_log,
                   uvars, buffer_pool_lock, file_manager_lock, pc>>

\* The call on top of the stack runs: it returns, aborts the program, or
\* splits and calls itself.
InsertEnter ==
    /\ HashRunning
    /\ call_stack # <<>>
    /\ Top.at = "called"
    /\ Len(call_stack) < MaxStack
    /\ \E s \in {St}, top \in {Top} :
       \E e \in {insert_with_lock_enter(s, directory_page_id[1], top.key, top.value)} :
       /\ InsertApply(e.s)
       /\ call_stack' = IF e.s.panicked # "" THEN call_stack
                        ELSE IF e.recurses
                        THEN Pop(call_stack) \o <<e.frame, Called(Top.key, Top.value)>>
                        ELSE Pop(call_stack)
    /\ UNCHANGED ops

\* The call below the one that returned writes its copies back and returns.
InsertReturn ==
    /\ HashRunning
    /\ call_stack # <<>>
    /\ Top.at = "split"
    /\ \E s \in {St}, top \in {Top} :
       \E r \in {insert_with_lock_return(s, directory_page_id[1], top)} :
           InsertApply(r)
    /\ call_stack' = Pop(call_stack)
    /\ UNCHANGED ops

InsertNext ==
    \/ SetupNewHashmap
    \/ InsertCall
    \/ InsertEnter
    \/ InsertReturn

\* A thread inside insert keeps running: nothing but its own panic stops it.
SpecInsert ==
    HashInit /\ [][InsertNext]_vars /\ WF_vars(InsertEnter) /\ WF_vars(InsertReturn)

\* The calls that split and wait, bottom first.
SplitFrames == {i \in 1..Len(call_stack) : call_stack[i].at = "split"}

\* C39: every insert terminates: each restart finds the local depth of the
\* key's slot one above what the call before it found, no call that split
\* found a depth at the directory's limit, so the calls that wait never
\* outnumber the depths below the limit, and every insert that was called
\* returns or aborts the program.
C39_InsertTerminates ==
    /\ [](\A i \in SplitFrames :
              /\ call_stack[i].found < MaxGlobalDepth
              /\ (i + 1) \in SplitFrames =>
                     call_stack[i + 1].found = call_stack[i].found + 1)
    /\ [](Cardinality(SplitFrames) < MaxGlobalDepth /\ Len(call_stack) < MaxStack)
    /\ (call_stack # <<>>) ~> (call_stack = <<>> \/ panicked # "")

\* An insert whose keys fell into the same half at two splits in a row and
\* that is about to restart a second time.
C39_Witness ==
    /\ panicked = ""
    /\ Len(call_stack) = 3
    /\ Top.at = "called"
    /\ \A e \in DOMAIN LiveOf(call_stack[2].bucket_page) :
           LiveOf(call_stack[2].bucket_page)[e][1] = Top.key


\* ------------------------------------------------------------------------
\* The page codecs
\* ------------------------------------------------------------------------

\* C37: decoding an encoded page gives back the view that was encoded, for
\* every page type; stated here for the B+ tree internal page: from_raw_page
\* of to_raw_page of a page returns, and returns that page.
C37_DecodeAfterEncode ==
    panicked = "" =>
        LET r == BPlusTreeInternalPage_from_raw_page(
                     BPlusTreeInternalPage_to_raw_page(internal_page))
        IN /\ r.panicked = ""
           /\ r.ret = Some(internal_page)


\* ------------------------------------------------------------------------
\* The two mutexes: Arc<Mutex<BufferPool>> around the pool and the
\* Arc<Mutex<DiskManager>> the pool keeps as file_manager
\* ------------------------------------------------------------------------

\* The operations a thread runs under the pool mutex: those of the hash
\* index, those of the B+ tree, and the flush main ends with.
Operations == {"hash", "tree", "main"}

\* The BufferPool methods an operation calls.
PoolCalls(op) ==
    CASE op = "hash" -> {"load_page", "update_page", "unload_page_id",
                         "load_new_page", "allocate_new_page"}
      [] op = "tree" -> {"load_page", "update_page"}
      [] op = "main" -> {"unload_all_pages_and_write_to_file"}

\* How often a BufferPool method takes the disk-manager mutex: load_page
\* not at all on a hit, once on a miss (the read), twice when it writes a
\* dirty victim back first; update_page as the load_page it begins with;
\* allocate_new_page once; load_new_page as the two it calls; the flush once
\* per dirty page.
DiskSections(call) ==
    CASE call \in {"load_page", "update_page"} -> 0..2
      [] call = "unload_page_id" -> {0}
      [] call = "allocate_new_page" -> {1}
      [] call = "load_new_page" -> 1..3
      [] call = "unload_all_pages_and_write_to_file" -> 0..MaxPoolSize

\* Mutex::new: nobody holds it, and no holder has panicked.
Mutex == [holder |-> 0, poisoned |-> FALSE]

\* lock() returning a guard to thread t.
lock(m, t) == [m EXCEPT !.holder = t]

\* A guard that is dropped and leaves the mutex locked.
drop_guard_kept(m, panicking) == m

\* The guard goes out of scope; a guard dropped by a panicking thread
\* poisons the mutex.
drop_guard(m, panicking) == [holder |-> 0, poisoned |-> m.poisoned \/ panicking]

At(t, position) == [pc EXCEPT ![t].at = position, ![t].call = "", ![t].left = 0]

InCall(t, call, left) ==
    [pc EXCEPT ![t].at = "in_call", ![t].call = call, ![t].left = left]

LockInit ==
    /\ data = <<>>
    /\ page_table = EmptyMap
    /\ current_pages = EmptyMap
    /\ file = <<>>
    /\ now = 0
    /\ panicked = ""
    /\ latest = <<>>
    /\ HashIdle
    /\ UnitIdle
    /\ buffer_pool_lock = Mutex
    /\ file_manager_lock = Mutex
    /\ pc = [t \in Threads |-> [at |-> "idle", op |-> "", call |-> "", left |-> 0]]
    /\ call_stack = <<>>

LockUnchanged ==
    UNCHANGED <<data, page_table, current_pages, file, now, panicked, latest, hvars,
                uvars, call_stack>>

\* A thread calls an operation of an index, or flushes the pool as main
\* does: its first statement is buffer_pool.lock().
PoolRequest(t) ==
    /\ pc[t].at = "idle"
    /\ \E op \in Operations :
           pc' = [pc EXCEPT ![t] = [at |-> "lock_pool", op |-> op, call |-> "", left |-> 0]]
    /\ UNCHANGED <<buffer_pool_lock, file_manager_lock>>
    /\ LockUnchanged

\* buffer_pool.lock() returns: with the guard, or from a poisoned mutex
\* with an error that expect() turns into a panic (hash index, main) and
\* ok()? into a None result (B+ tree); either way the guard in the error is
\* dropped at once.
PoolLock(t) ==
    /\ pc[t].at = "lock_pool"
    /\ buffer_pool_lock.holder = 0
    /\ IF buffer_pool_lock.poisoned
       THEN /\ pc' = At(t, IF pc[t].op = "tree" THEN "idle" ELSE "panicked")
            /\ UNCHANGED buffer_pool_lock
       ELSE /\ buffer_pool_lock' = lock(buffer_pool_lock, t)
            /\ pc' = At(t, "in_pool")
    /\ UNCHANGED file_manager_lock
    /\ LockUnchanged

\* The holder of the pool calls a BufferPool method that will go to the
\* disk left times.
PoolCall(t) ==
    /\ pc[t].at = "in_pool"
    /\ \E call \in PoolCalls(pc[t].op) :
           \E left \in DiskSections(call) : pc' = InCall(t, call, left)
    /\ UNCHANGED <<buffer_pool_lock, file_manager_lock>>
    /\ LockUnchanged

\* The method reaches self.file_manager.lock().
DiskRequest(t) ==
    /\ pc[t].at = "in_call"
    /\ pc[t].left > 0
    /\ pc' = [pc EXCEPT ![t].at = "lock_disk"]
    /\ UNCHANGED <<buffer_pool_lock, file_manager_lock>>
    /\ LockUnchanged

\* file_manager.lock().unwrap(): the guard, or a panic on a poisoned mutex
\* that unwinds through the pool guard of the caller.
DiskLock(t) ==
    /\ pc[t].at = "lock_disk"
    /\ file_manager_lock.holder = 0
    /\ IF file_manager_lock.poisoned
       THEN /\ pc' = At(t, "panicked")
            /\ buffer_pool_lock' = IF buffer_pool_lock.holder = t
                                   THEN drop_guard(buffer_pool_lock, TRUE)
                                   ELSE buffer_pool_lock
            /\ UNCHANGED file_manager_lock
       ELSE /\ file_manager_lock' = lock(file_manager_lock, t)
            /\ pc' = [pc EXCEPT ![t].at = "in_disk"]
            /\ UNCHANGED buffer_pool_lock
    /\ LockUnchanged

\* read_page or write_page returns and the disk guard is dropped: at the
\* end of the statement, or of allocate_new_page.
DiskUnlock(t) ==
    /\ pc[t].at = "in_disk"
    /\ file_manager_lock' = IF file_manager_lock.holder = t
                            THEN drop_guard(file_manager_lock, FALSE)
                            ELSE file_manager_lock
    /\ pc' = InCall(t, pc[t].call, pc[t].left - 1)
    /\ UNCHANGED buffer_pool_lock
    /\ LockUnchanged

\* read_page panics ("Could not read page contents"): both guards of the
\* thread are dropped while it unwinds.
DiskPanic(t) ==
    /\ pc[t].at = "in_disk"
    /\ file_manager_lock' = IF file_manager_lock.holder = t
                            THEN drop_guard(file_manager_lock, TRUE)
                            ELSE file_manager_lock
    /\ buffer_pool_lock' = IF buffer_pool_lock.holder = t
                           THEN drop_guard(buffer_pool_lock, TRUE)
                           ELSE buffer_pool_lock
    /\ pc' = At(t, "panicked")
    /\ LockUnchanged

\* The BufferPool method returns to the operation that called it.
PoolCallReturns(t) ==
    /\ pc[t].at = "in_call"
    /\ pc[t].left = 0
    /\ pc' = At(t, "in_pool")
    /\ UNCHANGED <<buffer_pool_lock, file_manager_lock>>
    /\ LockUnchanged

\* An expect() or unwrap() of the operation fails between two pool calls.
PoolPanic(t) ==
    /\ pc[t].at = "in_pool"
    /\ buffer_pool_lock' = IF buffer_pool_lock.holder = t
                           THEN drop_guard(buffer_pool_lock, TRUE)
                           ELSE buffer_pool_lock
    /\ pc' = At(t, "panicked")
    /\ UNCHANGED file_manager_lock
    /\ LockUnchanged

\* The operation returns and its pool guard is dropped.
PoolUnlock(t) ==
    /\ pc[t].at = "in_pool"
    /\ buffer_pool_lock' = IF buffer_pool_lock.holder = t
                           THEN drop_guard(buffer_pool_lock, FALSE)
                           ELSE buffer_pool_lock
    /\ pc' = At(t, "idle")
    /\ UNCHANGED file_manager_lock
    /\ LockUnchanged

\* A step of a thread that is inside an operation.
LockProgress ==
    \E t \in Threads :
        \/ PoolLock(t)
        \/ PoolCall(t)
        \/ DiskRequest(t)
        \/ DiskLock(t)
        \/ DiskUnlock(t)
        \/ DiskPanic(t)
        \/ PoolCallReturns(t)
        \/ PoolPanic(t)
        \/ PoolUnlock(t)

LockNext ==
    \/ \E t \in Threads : PoolRequest(t)
    \/ LockProgress

SpecLock == LockInit /\ [][LockNext]_vars

\* C31: the disk-manager mutex is requested and held only by the thread
\* that holds the pool mutex; a thread that is outside a pool method (idle,
\* requesting the pool mutex, between two pool calls, or dead) holds no
\* disk-manager mutex; and whenever a thread is inside an operation or
\* waits for a mutex, some thread can take a step: there is no deadlock.
C31_LockOrder ==
    /\ file_manager_lock.holder # 0 =>
           buffer_pool_lock.holder = file_manager_lock.holder
    /\ \A t \in Threads :
           /\ pc[t].at \in {"lock_disk", "in_disk"} => buffer_pool_lock.holder = t
           /\ pc[t].at \in {"idle", "lock_pool", "in_pool", "panicked"} =>
                  file_manager_lock.holder # t
           /\ pc[t].at \in {"idle", "lock_pool", "panicked"} =>
                  buffer_pool_lock.holder # t
    /\ (\E t \in Threads : pc[t].at \notin {"idle", "panicked"}) => ENABLED LockProgress

\* One thread is inside the disk manager under both mutexes while another
\* waits for the pool.
C31_Witness ==
    \E t, u \in Threads :
        /\ pc[t].at = "in_disk"
        /\ file_manager_lock.holder = t
        /\ buffer_pool_lock.holder = t
        /\ pc[u].at = "lock_pool"

====
